---- MODULE Spec2Model ----
(***************************************************************************)
(* Model of file-manager-services: the ResourceInfo path descriptor, the   *)
(* normalizePath utility and the InMemory, Github and GoogleDrive storage  *)
(* adapters.                                                               *)
(*                                                                         *)
(* A string is a sequence of one-character strings, so that the string     *)
(* operations of the source (split, join, replace, endsWith, a regular     *)
(* expression) are computed character by character.                        *)
(***************************************************************************)
EXTENDS Integers, Sequences, FiniteSets, TLC

VARIABLES
    rscPath,      \* ResourceInfo: the raw path given to the constructor
    options,      \* ResourceInfo: [rootDir, type] given to the constructor
    rsc,          \* ResourceInfo: the constructed object, [thrown, path, error]
    reparsed,     \* ResourceInfo: new ResourceInfo(rsc.path), [thrown, path, error]
    riPc,         \* ResourceInfo: "start" | "constructed" | "reparsed" | "inspected"
                  \* | "climbing" | "atRoot"
    getters,      \* ResourceInfo: the values read from the getters of rsc
    lineage,      \* ResourceInfo: rsc, rsc.parent, rsc.parent.parent, ...
    npCall,       \* normalizePath: a call, [called, rscPath, opts, result]
    fileSystem,   \* InMemory: the Map, as the sequence of its entries in insertion order
    written,      \* InMemory: per path, the content of the last update not followed by a delete
    memOp,        \* InMemory: the last operation, [op, path, outcome, value, entries]
    ghRootDir,    \* Github: this.rootDir, normalized by the constructor
    repo,         \* Github: the files of the repository, a set of [loc, content]
    ghOp,         \* Github: the last operation and the backend calls it issued
    ghProcs,      \* Github: per concurrent caller, the operation in progress
                  \* between its metadata fetch and its mutating request
    gdRootDir,    \* GoogleDrive: this.rootDir
    drive,        \* GoogleDrive: the nodes of the Drive, by ID
    idsCache,     \* GoogleDrive: the path -> ID Map, a set of [path, id]
    gdOp          \* GoogleDrive: the last operation and the backend calls it issued

riVars == <<rscPath, options, rsc, reparsed, riPc, getters, lineage, npCall>>
memVars == <<fileSystem, written, memOp>>
ghVars == <<ghRootDir, repo, ghOp, ghProcs>>
gdVars == <<gdRootDir, drive, idsCache, gdOp>>
vars == <<riVars, memVars, ghVars, gdVars>>

----------------------------------------------------------------------------
(* Bounds and alphabets *)

MaxLen == 5        \* longest raw path drawn for the ResourceInfo constructor
MaxRootLen == 2    \* longest rootDir drawn for the ResourceInfo constructor

\* the class [a-zA-Z], as far as the paths drawn use it
Letters == {"a", "b", "c", "d", "g", "i", "k", "t", "e", "p", "r", "h", "x", "H"}
Chars == {"/", ".", "1", "a"}    \* "1" stands for a non-letter character

StringsUpTo(n) == UNION {[1..k -> Chars] : k \in 0..n}

----------------------------------------------------------------------------
(* String primitives of the JavaScript runtime, as the source uses them *)

startsWith(s, prefix) ==
    /\ Len(prefix) <= Len(s)
    /\ SubSeq(s, 1, Len(prefix)) = prefix

endsWith(s, suffix) ==
    /\ Len(suffix) <= Len(s)
    /\ SubSeq(s, Len(s) - Len(suffix) + 1, Len(s)) = suffix

\* String.prototype.indexOf, 1-based; 0 when sub does not occur
indexOf(s, sub) ==
    LET hits == {i \in 1..(Len(s) - Len(sub) + 1) : SubSeq(s, i, i + Len(sub) - 1) = sub}
    IN  IF hits = {} THEN 0 ELSE CHOOSE i \in hits : \A j \in hits : i <= j

\* String.prototype.replace with a string pattern: the first occurrence only
replace(s, sub, repl) ==
    LET i == indexOf(s, sub)
    IN  IF i = 0 THEN s
        ELSE SubSeq(s, 1, i - 1) \o repl \o SubSeq(s, i + Len(sub), Len(s))

\* String.prototype.split("/"): every piece, the empty ones included
RECURSIVE splitFrom(_, _, _)
splitFrom(s, i, cur) ==
    IF i > Len(s) THEN <<cur>>
    ELSE IF s[i] = "/" THEN <<cur>> \o splitFrom(s, i + 1, <<>>)
    ELSE splitFrom(s, i + 1, Append(cur, s[i]))

split(s) == splitFrom(s, 1, <<>>)

\* Array.prototype.join("/")
RECURSIVE join(_)
join(parts) ==
    IF parts = <<>> THEN <<>>
    ELSE IF Len(parts) = 1 THEN parts[1]
    ELSE parts[1] \o <<"/">> \o join(Tail(parts))

NonEmpty(part) == part # <<>>

SegmentsUnfiltered(s) == split(s)

\* rscPath.split("/").filter(Boolean)
Segments(s) == SelectSeq(split(s), NonEmpty)

----------------------------------------------------------------------------
(* src/utils/path-utils.ts *)

\* a normalizePath that adds the trailing slash asked for even to an empty trimmed path
normalizePathUnguarded(path, addLeadingSlash, addTrailingSlash) ==
    IF path = <<>> THEN <<>>
    ELSE (IF addLeadingSlash THEN <<"/">> ELSE <<>>)
         \o join(Segments(path))
         \o (IF addTrailingSlash THEN <<"/">> ELSE <<>>)

\* a normalizePath that adds the slashes asked for around the path as given
normalizePathUntrimmed(path, addLeadingSlash, addTrailingSlash) ==
    IF path = <<>> THEN <<>>
    ELSE (IF addLeadingSlash THEN <<"/">> ELSE <<>>)
         \o path
         \o (IF addTrailingSlash THEN <<"/">> ELSE <<>>)

NormalizePathOptions == [addLeadingSlash : BOOLEAN, addTrailingSlash : BOOLEAN]

NoCall ==
    [called |-> FALSE, rscPath |-> <<>>,
     opts |-> [addLeadingSlash |-> FALSE, addTrailingSlash |-> FALSE], result |-> <<>>]

normalizePath(path, addLeadingSlash, addTrailingSlash) ==
    IF path = <<>> THEN <<>>
    ELSE LET trimmed == join(Segments(path))
         IN  (IF addLeadingSlash THEN <<"/">> ELSE <<>>)
             \o trimmed
             \o (IF Len(trimmed) # 0 /\ addTrailingSlash THEN <<"/">> ELSE <<>>)

----------------------------------------------------------------------------
(* src/services/ResourceInfo.ts *)

NoType == "none"
Types == {NoType, "file", "dir"}

\* rscPath.match(/\.[a-zA-Z]+$/)
matchesExtension(s) ==
    \E i \in 1..(Len(s) - 1) :
        /\ s[i] = "."
        /\ \A j \in (i + 1)..Len(s) : s[j] \in Letters

\* an inference whose extension test is not anchored at the end of the path
inferTypeUnanchored(path) ==
    IF \E i \in 1..(Len(path) - 1) : path[i] = "." /\ path[i + 1] \in Letters
    THEN "file" ELSE "dir"

\* the type the constructor infers when none is declared: the assignment made
\* for a trailing slash is overwritten by the extension test that follows it
inferType(path) ==
    LET first == IF endsWith(path, <<"/">>) THEN "dir" ELSE NoType
    IN  IF matchesExtension(path) THEN "file" ELSE "dir"

\* the constructor throws FileManagerError(400, ...) on a falsy rscPath
constructorThrows(path) == path = <<>>

NoResource == [thrown |-> FALSE, path |-> <<>>, error |-> "none"]

\* the _path the constructor stores
ResourceInfo(path, rootDir, type) ==
    LET t == IF type = NoType THEN inferType(path) ELSE type
    IN  normalizePath(replace(path, normalizePath(rootDir, FALSE, FALSE), <<>>),
                      TRUE, t = "dir")

construct(path, rootDir, type) ==
    IF constructorThrows(path)
    THEN [thrown |-> TRUE, path |-> <<>>, error |-> "FileManagerError"]
    ELSE [thrown |-> FALSE, path |-> ResourceInfo(path, rootDir, type), error |-> "none"]

isDirectory(r) == endsWith(r.path, <<"/">>)

isFile(r) == ~endsWith(r.path, <<"/">>)

\* the name of the root directory
RootName == <<"<", "r", "o", "o", "t", ">">>

\* the fullname getter: the last segment of the path
fullname(r) ==
    LET pathParts == Segments(r.path)
    IN  IF Len(pathParts) = 0 THEN RootName ELSE pathParts[Len(pathParts)]

\* the name getter: fullname.split(".")[0]
nameOf(r) ==
    IF indexOf(fullname(r), <<".">>) = 0 THEN fullname(r)
    ELSE SubSeq(fullname(r), 1, indexOf(fullname(r), <<".">>) - 1)

\* a parent getter that re-parses the remaining segments without the trailing
\* slash, leaving the kind of the parent to the inference
parentInferred(r) ==
    LET pathParts == Segments(r.path)
    IN  IF Len(pathParts) = 0 THEN NoResource
        ELSE construct(join(SubSeq(pathParts, 1, Len(pathParts) - 1)), <<>>, NoType)

\* the parent getter; NoResource stands for null
parent(r) ==
    LET pathParts == Segments(r.path)
    IN  IF Len(pathParts) = 0 THEN NoResource
        ELSE construct(join(SubSeq(pathParts, 1, Len(pathParts) - 1)) \o <<"/">>,
                       <<>>, NoType)

\* String.prototype.toLowerCase on the letters the paths drawn use
toLowerCase(s) == [i \in 1..Len(s) |-> IF s[i] = "H" THEN "h" ELSE s[i]]

\* the 1-based position of the last dot of s, 0 when s has none
lastDotPos(s) ==
    IF \A i \in 1..Len(s) : s[i] # "." THEN 0
    ELSE CHOOSE i \in 1..Len(s) : s[i] = "." /\ \A j \in (i + 1)..Len(s) : s[j] # "."

\* an ext getter that keeps only what follows the last dot
extAfterLastDot(r) ==
    IF isFile(r)
    THEN IF lastDotPos(fullname(r)) = 0 THEN <<>>
         ELSE toLowerCase(SubSeq(fullname(r), lastDotPos(fullname(r)) + 1, Len(fullname(r))))
    ELSE <<>>

\* the ext getter: what follows the first dot of fullname, in lowercase
ext(r) ==
    IF isFile(r)
    THEN LET dotPos == indexOf(fullname(r), <<".">>)
         IN  IF dotPos = 0 THEN <<>>
             ELSE toLowerCase(SubSeq(fullname(r), dotPos + 1, Len(fullname(r))))
    ELSE <<>>

\* the alternatives of the regular expression of isText
TextExtensions ==
    { <<"t", "x", "t">>, <<"m", "d">>, <<"h", "t", "m", "l">>,
      <<"c", "s", "s">>, <<"j", "s">>, <<"j", "s", "x">>, <<"t", "s">>,
      <<"t", "s", "x">>, <<"j", "s", "o", "n">>, <<"j", "s", "o", "n", "c">>,
      <<"y", "m", "l">>, <<"y", "a", "m", "l">>, <<"t", "o", "m", "l">>,
      <<"l", "o", "g">>, <<"i", "n", "i">>, <<"c", "o", "n", "f">>,
      <<"c", "f", "g">>, <<"e", "n", "v">>,
      <<"p", "r", "o", "p", "e", "r", "t", "i", "e", "s">>,
      <<"c", "s", "v">>, <<"x", "m", "l">>, <<"s", "h">>, <<"b", "a", "t">>,
      <<"p", "y">>, <<"p", "h", "p">>, <<"j", "a", "v", "a">>, <<"r", "b">>,
      <<"g", "o">>, <<"p", "l">>, <<"l", "u", "a">>, <<"c">>,
      <<"c", "p", "p">>, <<"h">>, <<"h", "p", "p">>, <<"r", "s">>,
      <<"s", "c", "s", "s">>, <<"s", "a", "s", "s">>, <<"l", "e", "s", "s">>,
      <<"t", "e", "x">>, <<"r", "s", "t">>, <<"s", "q", "l">>,
      <<"v", "u", "e">>, <<"a", "s", "t", "r", "o">>,
      <<"d", "o", "c", "k", "e", "r", "f", "i", "l", "e">>, <<"m", "k">>,
      <<"g", "r", "o", "o", "v", "y">>, <<"s", "w", "i", "f", "t">>,
      <<"k", "t">>, <<"k", "t", "s">>, <<"d", "a", "r", "t">>,
      <<"e", "r", "l">>, <<"e", "x">>, <<"e", "x", "s">>,
      <<"s", "c", "a", "l", "a">> }

\* the isText getter: the regular expression is anchored at the end of ext only
isText(r) == \E e \in TextExtensions : endsWith(ext(r), e)

NoGetters ==
    [read |-> FALSE, fullname |-> <<>>, name |-> <<>>, ext |-> <<>>,
     isText |-> FALSE, isFile |-> FALSE, isDirectory |-> FALSE]

\* every getter of a resource, read once
gettersOf(r) ==
    [read |-> TRUE, fullname |-> fullname(r), name |-> nameOf(r), ext |-> ext(r),
     isText |-> isText(r), isFile |-> isFile(r), isDirectory |-> isDirectory(r)]

----------------------------------------------------------------------------
(* src/services/InMemoryFileManager.ts: the Map and the values it holds *)

MaxEntries == 3    \* most entries the Map holds in a run

Undefined == [type |-> "undefined", data |-> ""]
TextContents == {[type |-> "string", data |-> ""], [type |-> "string", data |-> "A"]}
BinaryContents == {[type |-> "Buffer", data |-> ""]}
EmptyText == [type |-> "string", data |-> ""]

\* JavaScript truthiness of a Map value: undefined and "" are falsy, a Buffer
\* (even an empty one) is truthy
falsy(v) == v = Undefined \/ v = EmptyText

keysOf(m) == [i \in 1..Len(m) |-> m[i].key]

mapHas(m, k) == \E i \in 1..Len(m) : m[i].key = k

mapGet(m, k) ==
    IF mapHas(m, k) THEN (CHOOSE e \in {m[i] : i \in 1..Len(m)} : e.key = k).content
    ELSE Undefined

\* Map.set keeps the position of an existing key and appends a new one
mapSet(m, k, v) ==
    IF mapHas(m, k)
    THEN [i \in 1..Len(m) |-> IF m[i].key = k THEN [key |-> k, content |-> v] ELSE m[i]]
    ELSE Append(m, [key |-> k, content |-> v])

mapDelete(m, k) ==
    LET keep(e) == e.key # k IN SelectSeq(m, keep)

\* raw paths the callers pass to the InMemory adapter
MemFilePaths ==
    { <<"/", "a", ".", "b">>,                \* /a.b
      <<"/", "a", ".", "1">>,                \* /a.1
      <<"/", "a", "/", "b", ".", "a">>,      \* /a/b.a
      <<"a", ".", "b">> }                    \* a.b
MemDirPaths ==
    { <<"/">>,
      <<"/", "a", "/">>,                     \* /a/
      <<"/", "a">>,                          \* /a
      <<"/", "a", "/", "b", "/">>,           \* /a/b/
      <<"/", "a", "b">> }                    \* /ab

NoOp ==
    [op |-> "none", path |-> <<>>, outcome |-> "ok", value |-> Undefined, entries |-> <<>>]

IdleMem ==
    /\ fileSystem = <<>>
    /\ written = [p \in MemFilePaths |-> Undefined]
    /\ memOp = NoOp

NoGhOp ==
    [op |-> "none", path |-> <<>>, outcome |-> "ok", value |-> Undefined,
     entries |-> <<>>, calls |-> <<>>]

\* the callers of the Github adapter that run concurrently
Procs == {"p1", "p2"}

IdleProc == [pc |-> "idle", op |-> "none", content |-> Undefined, infos |-> Undefined,
             outcome |-> "ok"]

IdleGH ==
    /\ ghRootDir = <<>>
    /\ repo = {}
    /\ ghOp = NoGhOp
    /\ ghProcs = [p \in Procs |-> IdleProc]

IdleGD ==
    /\ gdRootDir = <<>>
    /\ drive = <<>>
    /\ idsCache = {}
    /\ gdOp = NoGhOp

----------------------------------------------------------------------------
(* The ResourceInfo constructor applied to every bounded input *)

IdleRI ==
    /\ rscPath = <<>>
    /\ options = [rootDir |-> <<>>, type |-> NoType]
    /\ rsc = NoResource
    /\ reparsed = NoResource
    /\ riPc = "idle"
    /\ getters = NoGetters
    /\ lineage = <<>>
    /\ npCall = NoCall

InitRI ==
    /\ rscPath \in StringsUpTo(MaxLen)
    /\ options \in [rootDir : StringsUpTo(MaxRootLen), type : Types]
    /\ rsc = NoResource
    /\ reparsed = NoResource
    /\ riPc = "start"
    /\ getters = NoGetters
    /\ lineage = <<>>
    /\ npCall = NoCall
    /\ IdleMem
    /\ IdleGH
    /\ IdleGD

Construct ==
    /\ riPc = "start"
    /\ rsc' = construct(rscPath, options.rootDir, options.type)
    /\ riPc' = "constructed"
    /\ UNCHANGED <<rscPath, options, reparsed, getters, lineage, npCall>>
    /\ UNCHANGED <<memVars, ghVars, gdVars>>

Reparse ==
    /\ riPc = "constructed"
    /\ ~rsc.thrown
    /\ reparsed' = construct(rsc.path, <<>>, NoType)
    /\ riPc' = "reparsed"
    /\ UNCHANGED <<rscPath, options, rsc, getters, lineage, npCall>>
    /\ UNCHANGED <<memVars, ghVars, gdVars>>

NextRI == Construct \/ Reparse

SpecRI == InitRI /\ [][NextRI]_vars

----------------------------------------------------------------------------
(* normalizePath applied to every bounded input *)

InitNP ==
    /\ npCall \in [called : {FALSE}, rscPath : StringsUpTo(MaxLen),
                    opts : NormalizePathOptions, result : {<<>>}]
    /\ rscPath = <<>>
    /\ options = [rootDir |-> <<>>, type |-> NoType]
    /\ rsc = NoResource
    /\ reparsed = NoResource
    /\ riPc = "idle"
    /\ getters = NoGetters
    /\ lineage = <<>>
    /\ IdleMem
    /\ IdleGH
    /\ IdleGD

NormalizePath ==
    /\ ~npCall.called
    /\ npCall' = [npCall EXCEPT
                     !.called = TRUE,
                     !.result = normalizePath(npCall.rscPath, npCall.opts.addLeadingSlash,
                                              npCall.opts.addTrailingSlash)]
    /\ UNCHANGED <<rscPath, options, rsc, reparsed, riPc, getters, lineage>>
    /\ UNCHANGED <<memVars, ghVars, gdVars>>

NextNP == NormalizePath

SpecNP == InitNP /\ [][NextNP]_vars

----------------------------------------------------------------------------
(* The getters of ResourceInfo read on every bounded input *)

\* "c" and "H" are listed text extensions (once in lowercase), "x" is not
GetterChars == {"/", ".", "c", "H", "x"}
GetterPaths == UNION {[1..k -> GetterChars] : k \in 1..MaxLen}
GetterRootDirs == {<<>>, <<"c">>}

InitGetters ==
    /\ rscPath \in GetterPaths
    /\ options \in [rootDir : GetterRootDirs, type : Types]
    /\ rsc = NoResource
    /\ reparsed = NoResource
    /\ riPc = "start"
    /\ getters = NoGetters
    /\ lineage = <<>>
    /\ npCall = NoCall
    /\ IdleMem
    /\ IdleGH
    /\ IdleGD

\* a caller reads fullname, name, ext, isText, isFile and isDirectory
Inspect ==
    /\ riPc = "constructed"
    /\ ~rsc.thrown
    /\ getters' = gettersOf(rsc)
    /\ riPc' = "inspected"
    /\ UNCHANGED <<rscPath, options, rsc, reparsed, lineage, npCall>>
    /\ UNCHANGED <<memVars, ghVars, gdVars>>

\* a caller follows the parent getter from rsc until it returns null
Parent ==
    /\ riPc \in {"constructed", "climbing"}
    /\ ~rsc.thrown
    /\ \E from \in {IF lineage = <<>> THEN rsc ELSE lineage[Len(lineage)]} :
           IF Len(Segments(from.path)) = 0
           THEN /\ riPc' = "atRoot"
                /\ lineage' = IF lineage = <<>> THEN <<rsc>> ELSE lineage
           ELSE /\ riPc' = "climbing"
                /\ lineage' = (IF lineage = <<>> THEN <<rsc>> ELSE lineage)
                                  \o <<parent(from)>>
    /\ UNCHANGED <<rscPath, options, rsc, reparsed, getters, npCall>>
    /\ UNCHANGED <<memVars, ghVars, gdVars>>

NextGetters == Construct \/ Inspect \/ Parent

SpecGetters == InitGetters /\ [][NextGetters]_vars

----------------------------------------------------------------------------
(* Claims about the ResourceInfo constructor *)

Constructed == riPc # "start"

\* the type the constructor works with: the declared one, else the inferred one
effectiveType == IF options.type = NoType THEN inferType(rscPath) ELSE options.type

\* C1: for every non-empty raw path and every combination of options (a rootDir
\* equal to the raw path included) the constructed path is non-empty and
\* starts with "/".
C1_PathRooted ==
    (Constructed /\ rscPath # <<>>) =>
        /\ ~rsc.thrown
        /\ rsc.path # <<>>
        /\ startsWith(rsc.path, <<"/">>)

\* C2: for every non-empty raw path (slash-only ones included) a resource of
\* type "dir", declared or inferred, has a path ending with "/" and is a
\* directory; one of type "file", declared or inferred, has a path not ending
\* with "/" and is a file; isFile and isDirectory are never equal.
C2_KindMatchesTrailingSlash ==
    (Constructed /\ rscPath # <<>> /\ options.rootDir = <<>>) =>
        /\ effectiveType = "dir" => (endsWith(rsc.path, <<"/">>) /\ isDirectory(rsc))
        /\ effectiveType = "file" => (~endsWith(rsc.path, <<"/">>) /\ isFile(rsc))
        /\ isFile(rsc) # isDirectory(rsc)

NoOptions == options.rootDir = <<>> /\ options.type = NoType

\* C3: re-parsing a canonical path with no options yields the same path and
\* the same kind: ResourceInfo(ResourceInfo(p).path).path = ResourceInfo(p).path
\* for every non-empty raw path p.
C3_ConstructionIdempotent ==
    (riPc = "reparsed" /\ NoOptions) =>
        /\ ~reparsed.thrown
        /\ reparsed.path = rsc.path
        /\ isFile(reparsed) = isFile(rsc)
        /\ isDirectory(reparsed) = isDirectory(rsc)

\* a raw path with repeated slashes and several segments has been constructed
\* and re-parsed
C3_Witness ==
    /\ riPc = "reparsed"
    /\ NoOptions
    /\ Len(Segments(rscPath)) >= 2
    /\ rscPath # rsc.path
    /\ indexOf(rscPath, <<"/", "/">>) # 0

isPrefixSeq(p, s) == Len(p) <= Len(s) /\ SubSeq(s, 1, Len(p)) = p

\* the raw path without its leading slashes
RECURSIVE stripLeadingSlashes(_)
stripLeadingSlashes(s) ==
    IF s # <<>> /\ Head(s) = "/" THEN stripLeadingSlashes(Tail(s)) ELSE s

\* C4: with a rootDir, the normalized rootDir is removed only where it is a
\* leading prefix of the raw path: when the rootDir's segments lead the raw
\* path's segments the result is the remaining segments, and a raw path that
\* does not start with the rootDir keeps all of its segments.
C4_RootDirStrippedAsPrefixOnly ==
    LET root == Segments(options.rootDir)
        segs == Segments(rscPath)
        normRoot == normalizePath(options.rootDir, FALSE, FALSE)
    IN  (Constructed /\ rscPath # <<>> /\ root # <<>>) =>
            /\ isPrefixSeq(root, segs) =>
                   Segments(rsc.path) = SubSeq(segs, Len(root) + 1, Len(segs))
            /\ ~startsWith(stripLeadingSlashes(rscPath), normRoot) =>
                   Segments(rsc.path) = segs

----------------------------------------------------------------------------
(* src/services/InMemoryFileManager.ts: the operations *)

done(op, path, outcome, value, entries) ==
    [op |-> op, path |-> path, outcome |-> outcome, value |-> value, entries |-> entries]

\* both update methods are one Map.set
updateFile(op, path, content) ==
    /\ mapHas(fileSystem, path) \/ Len(fileSystem) < MaxEntries
    /\ fileSystem' = mapSet(fileSystem, path, content)
    /\ written' = [written EXCEPT ![path] = content]
    /\ memOp' = done(op, path, "ok", content, <<>>)

updateTextFile(path, content) == updateFile("updateTextFile", path, content)

updateBinaryFile(path, content) == updateFile("updateBinaryFile", path, content)

getFileContent(path) ==
    LET content == mapGet(fileSystem, path)
    IN  /\ memOp' = IF falsy(content)
                    THEN done("getFileContent", path, "FileNotFoundError", Undefined, <<>>)
                    ELSE done("getFileContent", path, "ok", content, <<>>)
        /\ UNCHANGED <<fileSystem, written>>

deleteFile(path) ==
    LET fileInfo == mapGet(fileSystem, path)
    IN  /\ IF falsy(fileInfo)
           THEN /\ memOp' = done("deleteFile", path, "FileNotFoundError", Undefined, <<>>)
                /\ UNCHANGED fileSystem
           ELSE /\ memOp' = done("deleteFile", path, "ok", Undefined, <<>>)
                /\ fileSystem' = mapDelete(fileSystem, path)
        /\ written' = [written EXCEPT ![path] = Undefined]

\* the entries listDirectoryContent pushes, in the order of the Map's keys
listed(m, dirPath, recursive) ==
    LET relativePath(k) == SubSeq(k, Len(dirPath) + 1, Len(k))
        pushed(e) ==
            /\ startsWith(e.key, dirPath)
            /\ e.key # dirPath
            /\ recursive \/ Len(Segments(relativePath(e.key))) = 1
        kept == SelectSeq(m, pushed)
    IN  [i \in 1..Len(kept) |-> construct(kept[i].key, <<>>, NoType)]

listDirectoryContent(dirPath, recursive) ==
    /\ memOp' = done(IF recursive THEN "listDirectoryContentRecursive"
                     ELSE "listDirectoryContent",
                     dirPath, "ok", Undefined, listed(fileSystem, dirPath, recursive))
    /\ UNCHANGED <<fileSystem, written>>

\* a createDirectory that stores the path given and none of its ancestors
createdLeafOnly(m, pathParts, n) ==
    IF n = 0 THEN m
    ELSE mapSet(m, <<"/">> \o join(SubSeq(pathParts, 1, n)) \o <<"/">>, EmptyText)

\* the loop of createDirectory over the first n segments of the path
RECURSIVE createdUpTo(_, _, _)
createdUpTo(m, pathParts, n) ==
    IF n = 0 THEN m
    ELSE LET before == createdUpTo(m, pathParts, n - 1)
             currentDirPath == <<"/">> \o join(SubSeq(pathParts, 1, n)) \o <<"/">>
         IN  IF mapHas(before, currentDirPath) THEN before
             ELSE mapSet(before, currentDirPath, EmptyText)

createDirectory(path) ==
    LET dirPath == IF endsWith(path, <<"/">>) THEN path ELSE path \o <<"/">>
        pathParts == Segments(dirPath)
        after == createdUpTo(fileSystem, pathParts, Len(pathParts))
    IN  /\ Len(after) <= MaxEntries
        /\ fileSystem' = after
        /\ memOp' = done("createDirectory", path, "ok", Undefined, <<>>)
        /\ UNCHANGED written

deleteDirectory(dirPath) ==
    LET kept(e) == ~startsWith(e.key, dirPath)
    IN  /\ fileSystem' = SelectSeq(fileSystem, kept)
        /\ written' = [p \in MemFilePaths |->
                          IF startsWith(p, dirPath) THEN Undefined ELSE written[p]]
        /\ memOp' = done("deleteDirectory", dirPath, "ok", Undefined, <<>>)

InitMem ==
    /\ fileSystem = <<>>
    /\ written = [p \in MemFilePaths |-> Undefined]
    /\ memOp = NoOp
    /\ IdleRI
    /\ IdleGH
    /\ IdleGD

UpdateTextFile ==
    \E p \in MemFilePaths, c \in TextContents : updateTextFile(p, c) /\ UNCHANGED <<riVars, ghVars, gdVars>>

UpdateBinaryFile ==
    \E p \in MemFilePaths, c \in BinaryContents : updateBinaryFile(p, c) /\ UNCHANGED <<riVars, ghVars, gdVars>>

GetFileContent ==
    \E p \in MemFilePaths : getFileContent(p) /\ UNCHANGED <<riVars, ghVars, gdVars>>

DeleteFile ==
    \E p \in MemFilePaths : deleteFile(p) /\ UNCHANGED <<riVars, ghVars, gdVars>>

ListDirectoryContent ==
    \E d \in MemDirPaths, recursive \in BOOLEAN :
        listDirectoryContent(d, recursive) /\ UNCHANGED <<riVars, ghVars, gdVars>>

CreateDirectory ==
    \E d \in MemDirPaths : createDirectory(d) /\ UNCHANGED <<riVars, ghVars, gdVars>>

DeleteDirectory ==
    \E d \in MemDirPaths : deleteDirectory(d) /\ UNCHANGED <<riVars, ghVars, gdVars>>

NextMem ==
    \/ UpdateTextFile
    \/ UpdateBinaryFile
    \/ GetFileContent
    \/ DeleteFile
    \/ ListDirectoryContent
    \/ CreateDirectory
    \/ DeleteDirectory

SpecMem == InitMem /\ [][NextMem]_vars

----------------------------------------------------------------------------
(* Claims about the InMemory adapter *)

\* C7: on the InMemory adapter getFileContent(p) returns exactly the content of
\* the most recent update of p that no delete of p has followed, whatever the
\* content (the empty string included).
C7_MemReadReturnsLastWrite ==
    (memOp.op = "getFileContent" /\ written[memOp.path] # Undefined) =>
        /\ memOp.outcome = "ok"
        /\ memOp.value = written[memOp.path]

\* p names a file directly under "/"
directlyUnderRoot(p) == Len(split(p)) = 2 /\ Head(p) = "/" /\ ~endsWith(p, <<"/">>)

\* C8: on a store holding nothing but one file p written directly under "/",
\* listDirectoryContent("/") returns exactly one entry, whose path is p and
\* which is a file.
C8_MemCreateThenList ==
    (/\ memOp.op = "listDirectoryContent"
     /\ memOp.path = <<"/">>
     /\ Len(fileSystem) = 1
     /\ directlyUnderRoot(fileSystem[1].key)
     /\ written[fileSystem[1].key] # Undefined) =>
        /\ Len(memOp.entries) = 1
        /\ ~memOp.entries[1].thrown
        /\ memOp.entries[1].path = fileSystem[1].key
        /\ isFile(memOp.entries[1])

listedPaths(m, dirPath) ==
    LET entries == listed(m, dirPath, FALSE)
    IN  {entries[i].path : i \in 1..Len(entries)}

\* a deleteFile(p) step of the InMemory adapter on a stored file removes p from
\* the listing of its parent and leaves every other entry as it was; on an
\* absent path it leaves the store unchanged and ends with FileNotFoundError
MemDeleteSemantics ==
    \A p \in MemFilePaths :
        (memOp'.op = "deleteFile" /\ memOp'.path = p) =>
            IF mapHas(fileSystem, p)
            THEN /\ memOp'.outcome = "ok"
                 /\ fileSystem' = mapDelete(fileSystem, p)
                 /\ construct(p, <<>>, NoType).path \notin
                        listedPaths(fileSystem', parent(construct(p, <<>>, NoType)).path)
            ELSE /\ memOp'.outcome = "FileNotFoundError"
                 /\ fileSystem' = fileSystem

----------------------------------------------------------------------------
(* The repository content API the Github adapter calls *)

Null == [type |-> "null", data |-> ""]

NoLocation == [outside |-> TRUE, segs |-> <<>>]

\* the location a request path denotes: empty and "." segments are dropped and
\* a ".." segment steps to the parent, as a URL's dot-segments are removed
\* before the request is sent
RECURSIVE resolve(_, _)
resolve(parts, loc) ==
    IF parts = <<>> THEN loc
    ELSE LET h == Head(parts)
             next == IF loc.outside THEN loc
                     ELSE IF h = <<".", ".">>
                          THEN IF loc.segs = <<>> THEN NoLocation
                               ELSE [outside |-> FALSE,
                                     segs |-> SubSeq(loc.segs, 1, Len(loc.segs) - 1)]
                     ELSE IF h = <<".">> THEN loc
                     ELSE [outside |-> FALSE, segs |-> Append(loc.segs, h)]
         IN  resolve(Tail(parts), next)

denotes(path) == resolve(Segments(path), [outside |-> FALSE, segs |-> <<>>])

\* the order GitHub lists the names of a directory in
AsciiOrder == <<".", "1", "a", "b", "c", "d", "e", "g", "i", "k", "p", "r", "t">>

rank(c) == CHOOSE i \in 1..Len(AsciiOrder) : AsciiOrder[i] = c

RECURSIVE lexLess(_, _)
lexLess(s, t) ==
    IF t = <<>> THEN FALSE
    ELSE IF s = <<>> THEN TRUE
    ELSE IF Head(s) = Head(t) THEN lexLess(Tail(s), Tail(t))
    ELSE rank(Head(s)) < rank(Head(t))

RECURSIVE sorted(_)
sorted(names) ==
    IF names = {} THEN <<>>
    ELSE LET least == CHOOSE n \in names : \A m \in names \ {n} : lexLess(n, m)
         IN  <<least>> \o sorted(names \ {least})

shaOf(content) == [type |-> "sha", data |-> content]

fileAt(files, segs) == CHOOSE f \in files : f.loc = segs

hasFileAt(files, segs) == \E f \in files : f.loc = segs

hasFilesUnder(files, segs) ==
    \E f \in files : Len(f.loc) > Len(segs) /\ isPrefixSeq(segs, f.loc)

hasFileAbove(files, segs) ==
    \E f \in files : Len(f.loc) < Len(segs) /\ isPrefixSeq(f.loc, segs)

\* F applied to the value of v, with v evaluated once
With(v, F(_)) == CHOOSE r \in {F(x) : x \in {v}} : TRUE

getContentAt(files, loc) ==
    LET names == {f.loc[Len(loc.segs) + 1] :
                     f \in {g \in files : Len(g.loc) > Len(loc.segs)
                                          /\ isPrefixSeq(loc.segs, g.loc)}}
        entry(n) ==
            [type |-> IF hasFileAt(files, Append(loc.segs, n)) THEN "file" ELSE "dir",
             path |-> join(Append(loc.segs, n))]
        listing(ordered) == [i \in 1..Len(ordered) |-> entry(ordered[i])]
    IN  IF loc.outside THEN [status |-> 404]
        ELSE IF hasFileAt(files, loc.segs)
        THEN [status |-> 200, type |-> "file", path |-> join(loc.segs),
              content |-> fileAt(files, loc.segs).content,
              sha |-> shaOf(fileAt(files, loc.segs).content)]
        ELSE IF hasFilesUnder(files, loc.segs)
        THEN [status |-> 200, type |-> "dir", entries |-> With(sorted(names), listing)]
        ELSE [status |-> 404]

\* GET /repos/{owner}/{repo}/contents/{path}
getContent(files, path) ==
    LET at(loc) == getContentAt(files, loc) IN With(denotes(path), at)

createOrUpdateAt(files, loc, content, sha) ==
    IF loc.outside \/ loc.segs = <<>> THEN [status |-> 422, files |-> files]
    ELSE IF hasFileAt(files, loc.segs)
    THEN IF sha = shaOf(fileAt(files, loc.segs).content)
         THEN [status |-> 200,
               files |-> (files \ {fileAt(files, loc.segs)})
                         \cup {[loc |-> loc.segs, content |-> content]}]
         ELSE [status |-> 409, files |-> files]
    ELSE IF sha # Null \/ hasFilesUnder(files, loc.segs) \/ hasFileAbove(files, loc.segs)
    THEN [status |-> 422, files |-> files]
    ELSE [status |-> 201, files |-> files \cup {[loc |-> loc.segs, content |-> content]}]

\* PUT /repos/{owner}/{repo}/contents/{path}: a create without sha, an update
\* with the sha of the blob being replaced
createOrUpdateFileContents(files, path, content, sha) ==
    LET at(loc) == createOrUpdateAt(files, loc, content, sha) IN With(denotes(path), at)

deleteAt(files, loc, sha) ==
    IF loc.outside \/ ~hasFileAt(files, loc.segs) THEN [status |-> 404, files |-> files]
    ELSE IF sha = shaOf(fileAt(files, loc.segs).content)
    THEN [status |-> 200, files |-> files \ {fileAt(files, loc.segs)}]
    ELSE [status |-> 409, files |-> files]

\* DELETE /repos/{owner}/{repo}/contents/{path}
deleteFileContents(files, path, sha) ==
    LET at(loc) == deleteAt(files, loc, sha) IN With(denotes(path), at)

call(api, path, sha) == [api |-> api, path |-> path, sha |-> sha]

----------------------------------------------------------------------------
(* src/services/GithubFileManager.ts *)

\* Buffer.from(content).toString("base64"): the bytes, whatever held them
toBase64(content) == [type |-> "base64", data |-> content.data]

\* Buffer.from(content, "base64")
fromBase64(content) == [type |-> "Buffer", data |-> content.data]

ghGetPathFromRoot(path) == normalizePath(ghRootDir \o <<"/">> \o path, FALSE, FALSE)

\* a getFileInfos without the catch of the 404
fileInfosRethrown(resp, path, fullPath) ==
    IF resp.status = 404 \/ resp.type # "file"
    THEN [outcome |-> IF resp.status = 404 THEN "RequestError" ELSE "FileNotFoundError",
          path |-> path, content |-> Null, sha |-> Null,
          calls |-> <<call("getContent", fullPath, Null)>>]
    ELSE [outcome |-> "ok", path |-> resp.path, content |-> resp.content,
          sha |-> resp.sha, calls |-> <<call("getContent", fullPath, Null)>>]

\* what getFileInfos makes of the response to its request
fileInfosOf(resp, path, fullPath) ==
    IF resp.status = 404
    THEN [outcome |-> "ok", path |-> path, content |-> Null, sha |-> Null,
          calls |-> <<call("getContent", fullPath, Null)>>]
    ELSE IF resp.type # "file"
    THEN [outcome |-> "FileNotFoundError", path |-> path, content |-> Null,
          sha |-> Null, calls |-> <<call("getContent", fullPath, Null)>>]
    ELSE [outcome |-> "ok", path |-> resp.path, content |-> resp.content,
          sha |-> resp.sha, calls |-> <<call("getContent", fullPath, Null)>>]

\* a 404 is turned into a descriptor with null content and sha, holding the
\* caller's path; a path that is no file throws FileNotFoundError, which the
\* catch rethrows as it has no status
getFileInfos(files, path) ==
    LET got(fullPath) ==
            LET made(resp) == fileInfosOf(resp, path, fullPath)
            IN  With(getContent(files, fullPath), made)
    IN  With(ghGetPathFromRoot(path), got)

ghDone(op, path, outcome, value, entries, calls) ==
    [op |-> op, path |-> path, outcome |-> outcome, value |-> value,
     entries |-> entries, calls |-> calls]

ghGetFileContent(path) ==
    \E infos \in {getFileInfos(repo, path)} :
        /\ ghOp' = IF infos.outcome # "ok"
                   THEN ghDone("getFileContent", path, infos.outcome, Undefined, <<>>,
                               infos.calls)
                   ELSE IF infos.content = Null
                   THEN ghDone("getFileContent", path, "FileNotFoundError", Undefined,
                               <<>>, infos.calls)
                   ELSE ghDone("getFileContent", path, "ok", fromBase64(infos.content),
                               <<>>, infos.calls)
        /\ UNCHANGED <<ghRootDir, repo>>

\* an update whose catch swallows the rejection of the mutating request
putSwallowing(files, infos, content) ==
    LET calls == Append(infos.calls,
                        call("createOrUpdateFileContents", infos.path, infos.sha))
        result(put) == [outcome |-> "ok", files |-> put.files, calls |-> calls]
    IN  IF infos.outcome # "ok"
        THEN [outcome |-> infos.outcome, files |-> files, calls |-> infos.calls]
        ELSE With(createOrUpdateFileContents(files, infos.path, toBase64(content),
                                             infos.sha), result)

\* the mutating request of an update, given the file's infos
putWith(files, infos, content) ==
    LET calls == Append(infos.calls,
                        call("createOrUpdateFileContents", infos.path, infos.sha))
        result(put) ==
            IF put.status \in {200, 201}
            THEN [outcome |-> "ok", files |-> put.files, calls |-> calls]
            ELSE [outcome |-> "FileUpdateError", files |-> files, calls |-> calls]
    IN  IF infos.outcome # "ok"
        THEN [outcome |-> infos.outcome, files |-> files, calls |-> infos.calls]
        ELSE With(createOrUpdateFileContents(files, infos.path, toBase64(content),
                                             infos.sha), result)

\* what updateTextFile and updateBinaryFile do on the files of the repository
updated(files, filePath, content) ==
    LET put(infos) == putWith(files, infos, content)
    IN  With(getFileInfos(files, filePath), put)

ghUpdateFile(op, filePath, content) ==
    \E r \in {updated(repo, filePath, content)} :
        /\ repo' = r.files
        /\ ghOp' = ghDone(op, filePath, r.outcome, content, <<>>, r.calls)
        /\ UNCHANGED ghRootDir

ghUpdateTextFile(filePath, content) == ghUpdateFile("updateTextFile", filePath, content)

ghUpdateBinaryFile(filePath, content) == ghUpdateFile("updateBinaryFile", filePath, content)

\* the mutating request of deleteFile, given the file's infos
deleteWith(files, infos) ==
    LET calls == Append(infos.calls, call("deleteFile", infos.path, infos.sha))
        result(del) ==
            IF del.status = 200
            THEN [outcome |-> "ok", files |-> del.files, calls |-> calls]
            ELSE [outcome |-> "FileUpdateError", files |-> files, calls |-> calls]
    IN  IF infos.outcome # "ok"
        THEN [outcome |-> infos.outcome, files |-> files, calls |-> infos.calls]
        ELSE IF infos.sha = Null
        THEN [outcome |-> "ok", files |-> files, calls |-> infos.calls]
        ELSE With(deleteFileContents(files, infos.path, infos.sha), result)

\* what deleteFile does on the files of the repository
deleted(files, filePath) ==
    LET with(infos) == deleteWith(files, infos)
    IN  With(getFileInfos(files, filePath), with)

ghDeleteFile(filePath) ==
    \E r \in {deleted(repo, filePath)} :
        /\ repo' = r.files
        /\ ghOp' = ghDone("deleteFile", filePath, r.outcome, Undefined, <<>>, r.calls)
        /\ UNCHANGED ghRootDir

NothingListed == [outcome |-> "ok", entries |-> <<>>, calls |-> <<>>]

\* Promise.all over the sub-listings: the results in order, or the rejection
joined(sub, rest) ==
    [outcome |-> IF sub.outcome # "ok" THEN sub.outcome ELSE rest.outcome,
     entries |-> sub.entries \o rest.entries,
     calls |-> sub.calls \o rest.calls]

\* one listing, given the response to its request and its sub-listings
listingOf(resp, fullPath, subs) ==
    LET data == IF resp.status = 200 /\ resp.type = "dir" THEN resp.entries ELSE <<>>
        entries == [i \in 1..Len(data) |->
                       construct(data[i].path, ghRootDir, data[i].type)]
    IN  IF resp.status = 404
        THEN [outcome |-> "RequestError", entries |-> <<>>,
              calls |-> <<call("getContent", fullPath, Null)>>]
        ELSE [outcome |-> subs.outcome,
              entries |-> IF subs.outcome = "ok" THEN entries \o subs.entries ELSE <<>>,
              calls |-> <<call("getContent", fullPath, Null)>> \o subs.calls]

\* the entries of one directory listing, and the sub-listings of a recursive
\* one, which are given the backend's own paths; a failed request rejects
\* with the request's error
RECURSIVE ghListed(_, _, _)
RECURSIVE ghSubListed(_, _, _)
ghSubListed(files, data, i) ==
    IF i > Len(data) THEN NothingListed
    ELSE LET withRest(rest) ==
                 LET withSub(sub) == joined(sub, rest)
                 IN  With(IF data[i].type = "dir" THEN ghListed(files, data[i].path, TRUE)
                          ELSE NothingListed, withSub)
         IN  With(ghSubListed(files, data, i + 1), withRest)

ghListed(files, dirPath, recursive) ==
    LET got(fullPath) ==
            LET answered(resp) ==
                    LET made(subs) == listingOf(resp, fullPath, subs)
                    IN  With(IF recursive /\ resp.status = 200 /\ resp.type = "dir"
                             THEN ghSubListed(files, resp.entries, 1)
                             ELSE NothingListed, made)
            IN  With(getContent(files, fullPath), answered)
    IN  With(ghGetPathFromRoot(dirPath), got)

ghListDirectoryContent(dirPath, recursive) ==
    \E r \in {ghListed(repo, dirPath, recursive)} :
        /\ ghOp' = ghDone(IF recursive THEN "listDirectoryContentRecursive"
                          ELSE "listDirectoryContent",
                          dirPath, r.outcome, Undefined, r.entries, r.calls)
        /\ UNCHANGED <<ghRootDir, repo>>

ghCreateDirectory(path) ==
    \E r \in {updated(repo,
                      ghGetPathFromRoot(path)
                      \o <<"/", ".", "g", "i", "t", "k", "e", "e", "p">>,
                      EmptyText)} :
        /\ repo' = r.files
        /\ ghOp' = ghDone("createDirectory", path, r.outcome, Undefined, <<>>, r.calls)
        /\ UNCHANGED ghRootDir

\* deleteDirectory: the entries of the listing are deleted one after the
\* other, a file by deleteFile and a directory by deleteDirectory, each given
\* the entry's path; the first error ends the loop
RECURSIVE directoryDeleted(_, _)
RECURSIVE entriesDeleted(_, _, _, _)
entriesDeleted(files, dirListing, i, calls) ==
    IF i > Len(dirListing)
    THEN [outcome |-> "ok", files |-> files, calls |-> calls]
    ELSE LET next(r) ==
                 IF r.outcome # "ok"
                 THEN [outcome |-> r.outcome, files |-> r.files, calls |-> calls \o r.calls]
                 ELSE entriesDeleted(r.files, dirListing, i + 1, calls \o r.calls)
         IN  With(IF isFile(dirListing[i]) THEN deleted(files, dirListing[i].path)
                  ELSE directoryDeleted(files, dirListing[i].path), next)

directoryDeleted(files, dirPath) ==
    LET loop(listing) ==
            IF listing.outcome # "ok"
            THEN [outcome |-> listing.outcome, files |-> files, calls |-> listing.calls]
            ELSE entriesDeleted(files, listing.entries, 1, listing.calls)
    IN  With(ghListed(files, dirPath, FALSE), loop)

ghDeleteDirectory(dirPath) ==
    \E r \in {directoryDeleted(repo, dirPath)} :
        /\ repo' = r.files
        /\ ghOp' = ghDone("deleteDirectory", dirPath, r.outcome, Undefined, <<>>, r.calls)
        /\ UNCHANGED ghRootDir

\* raw paths the callers pass to the Github adapter
GhFilePaths ==
    { <<"/", "a", ".", "b">>,                     \* /a.b
      <<"/", "d", "/", "a", ".", "b">>,           \* /d/a.b
      <<".", ".", "/", "a", ".", "b">> }          \* ../a.b
GhDirPaths ==
    { <<"/">>,
      <<"/", "d", "/">> }                         \* /d/
GhRootDirs ==
    { <<>>,
      <<"/", "r", "/">> }                         \* /r/

\* files a repository may hold before the adapter is used
GhInitialFiles ==
    { [loc |-> <<<<"r">>, <<"a", ".", "b">>>>, content |-> [type |-> "base64", data |-> "A"]],     \* r/a.b
      [loc |-> <<<<"a", ".", "b">>>>, content |-> [type |-> "base64", data |-> "A"]],                \* a.b
      [loc |-> <<<<"r">>, <<"d">>, <<"c", ".", "b">>>>, content |-> [type |-> "base64", data |-> ""]] }  \* r/d/c.b

InitGH ==
    /\ ghRootDir \in {normalizePath(r, FALSE, FALSE) : r \in GhRootDirs}
    /\ repo \in SUBSET GhInitialFiles
    /\ ghOp = NoGhOp
    /\ ghProcs = [p \in Procs |-> IdleProc]
    /\ IdleRI
    /\ IdleMem
    /\ IdleGD

GhGetFileContent ==
    \E p \in GhFilePaths : ghGetFileContent(p) /\ UNCHANGED <<riVars, memVars, gdVars, ghProcs>>

GhUpdateTextFile ==
    \E p \in GhFilePaths, c \in TextContents :
        ghUpdateTextFile(p, c) /\ UNCHANGED <<riVars, memVars, gdVars, ghProcs>>

GhUpdateBinaryFile ==
    \E p \in GhFilePaths, c \in BinaryContents :
        ghUpdateBinaryFile(p, c) /\ UNCHANGED <<riVars, memVars, gdVars, ghProcs>>

GhDeleteFile ==
    \E p \in GhFilePaths : ghDeleteFile(p) /\ UNCHANGED <<riVars, memVars, gdVars, ghProcs>>

GhListDirectoryContent ==
    \E d \in GhDirPaths, recursive \in BOOLEAN :
        ghListDirectoryContent(d, recursive) /\ UNCHANGED <<riVars, memVars, gdVars, ghProcs>>

GhCreateDirectory ==
    \E d \in GhDirPaths : ghCreateDirectory(d) /\ UNCHANGED <<riVars, memVars, gdVars, ghProcs>>

GhDeleteDirectory ==
    \E d \in GhDirPaths : ghDeleteDirectory(d) /\ UNCHANGED <<riVars, memVars, gdVars, ghProcs>>

NextGH ==
    \/ GhGetFileContent
    \/ GhUpdateTextFile
    \/ GhUpdateBinaryFile
    \/ GhDeleteFile
    \/ GhListDirectoryContent
    \/ GhCreateDirectory
    \/ GhDeleteDirectory

SpecGH == InitGH /\ [][NextGH]_vars

----------------------------------------------------------------------------
(* The Drive files API the GoogleDrive adapter calls *)

RootId == "root"
NodeIds == {"id1", "id2", "id3", "id4", "id5"}

FreeNode == [state |-> "free", name |-> <<>>, parent |-> RootId, folder |-> FALSE,
             content |-> Undefined]

live(d, id) == id = RootId \/ (id \in NodeIds /\ d[id].state = "live")

isFolder(d, id) == id = RootId \/ (id \in NodeIds /\ d[id].folder)

childrenOf(d, parentId) ==
    {id \in NodeIds : d[id].state = "live" /\ d[id].parent = parentId}

\* id is n or one of the folders n is in
RECURSIVE isWithin(_, _, _)
isWithin(d, n, id) ==
    n = id \/ (n # RootId /\ isWithin(d, d[n].parent, id))

\* files.list with q: 'parentId' in parents and name='name' [and mimeType folder]
filesList(d, parentId, name, foldersOnly) ==
    {id \in childrenOf(d, parentId) :
        d[id].name = name /\ (foldersOnly => d[id].folder)}

\* files.get with alt=media
filesGet(d, id) ==
    IF live(d, id) /\ ~isFolder(d, id)
    THEN [status |-> 200, data |-> d[id].content]
    ELSE [status |-> 404, data |-> Undefined]

\* files.update with a media body
filesUpdate(d, id, body) ==
    IF live(d, id) /\ ~isFolder(d, id)
    THEN [status |-> 200, drive |-> [d EXCEPT ![id].content = body]]
    ELSE [status |-> 404, drive |-> d]

\* files.delete: a folder goes with everything in it
filesDelete(d, id) ==
    IF id # RootId /\ live(d, id)
    THEN [status |-> 204,
          drive |-> [n \in NodeIds |->
                        IF d[n].state = "live" /\ isWithin(d, n, id)
                        THEN [d[n] EXCEPT !.state = "gone"] ELSE d[n]]]
    ELSE [status |-> 404, drive |-> d]

freeIds(d) == {id \in NodeIds : d[id].state = "free"}

\* files.create of a folder; the Drive gives it an ID never used before
filesCreate(d, name, parentId) ==
    LET id == CHOOSE n \in freeIds(d) : TRUE
    IN  [id |-> id,
         drive |-> [d EXCEPT ![id] = [state |-> "live", name |-> name,
                                      parent |-> parentId, folder |-> TRUE,
                                      content |-> Undefined]]]

gdCall(api, id, name) == [api |-> api, id |-> id, name |-> name]

----------------------------------------------------------------------------
(* src/services/GoogleDriveFileManager.ts *)

cacheHas(cache, path) == \E e \in cache : e.path = path

cacheGet(cache, path) == (CHOOSE e \in cache : e.path = path).id

cacheSet(cache, path, id) ==
    {e \in cache : e.path # path} \cup {[path |-> path, id |-> id]}

gdGetPathFromRoot(path) == normalizePath(gdRootDir \o <<"/">> \o path, FALSE, FALSE)

splitPath(path) ==
    LET fileNamePosition ==
            IF \E i \in 1..Len(path) : path[i] = "/"
            THEN CHOOSE i \in 1..Len(path) :
                     path[i] = "/" /\ \A j \in (i + 1)..Len(path) : path[j] # "/"
            ELSE 0
    IN  <<SubSeq(path, 1, fileNamePosition), SubSeq(path, fileNamePosition + 1, Len(path))>>

\* the loop of getFolderIdByPath over the folder names still to resolve
RECURSIVE walked(_, _, _, _, _)
walked(d, folderId, folderNames, createIfNotExist, calls) ==
    IF folderNames = <<>>
    THEN [outcome |-> "ok", id |-> folderId, drive |-> d, calls |-> calls]
    ELSE LET folderName == Head(folderNames)
             listedCalls == Append(calls, gdCall("list", folderId, folderName))
             stepInto(files) ==
                 IF files # {}
                 THEN walked(d, CHOOSE id \in files : TRUE, Tail(folderNames),
                             createIfNotExist, listedCalls)
                 ELSE IF ~createIfNotExist
                 THEN [outcome |-> "FileNotFoundError", id |-> folderId, drive |-> d,
                       calls |-> listedCalls]
                 ELSE IF freeIds(d) = {}
                 THEN [outcome |-> "NoFreeId", id |-> folderId, drive |-> d,
                       calls |-> listedCalls]
                 ELSE LET into(resp) ==
                              walked(resp.drive, resp.id, Tail(folderNames),
                                     createIfNotExist,
                                     Append(listedCalls,
                                            gdCall("create", folderId, folderName)))
                      IN  With(filesCreate(d, folderName, folderId), into)
         IN  With(filesList(d, folderId, folderName, TRUE), stepInto)

\* getFolderIdByPath on the Drive d with the cache given: the ID, and the Drive
\* and the cache it leaves
getFolderIdByPath(d, cache, path, createIfNotExist) ==
    LET resolved(folderPath) ==
            LET cached(r) ==
                    [outcome |-> r.outcome, id |-> r.id, drive |-> r.drive,
                     calls |-> r.calls,
                     cache |-> IF r.outcome = "ok" THEN cacheSet(cache, folderPath, r.id)
                               ELSE cache]
            IN  IF cacheHas(cache, folderPath)
                THEN [outcome |-> "ok", id |-> cacheGet(cache, folderPath), drive |-> d,
                      calls |-> <<>>, cache |-> cache]
                ELSE With(walked(d, RootId, Segments(folderPath), createIfNotExist, <<>>),
                          cached)
    IN  With(gdGetPathFromRoot(path), resolved)

\* getFileIdByPath on the Drive d with the cache given
getFileIdByPath(d, cache, filePath) ==
    LET resolved(normalizedPath) ==
            LET inParent(parentFolder) ==
                    LET found(files) ==
                            IF files = {}
                            THEN [outcome |-> "FileNotFoundError", id |-> RootId,
                                  cache |-> parentFolder.cache,
                                  calls |-> Append(parentFolder.calls,
                                                   gdCall("list", parentFolder.id,
                                                          splitPath(normalizedPath)[2]))]
                            ELSE [outcome |-> "ok", id |-> CHOOSE id \in files : TRUE,
                                  cache |-> cacheSet(parentFolder.cache, normalizedPath,
                                                     CHOOSE id \in files : TRUE),
                                  calls |-> Append(parentFolder.calls,
                                                   gdCall("list", parentFolder.id,
                                                          splitPath(normalizedPath)[2]))]
                    IN  IF parentFolder.outcome # "ok"
                        THEN [outcome |-> parentFolder.outcome, id |-> RootId,
                              cache |-> parentFolder.cache, calls |-> parentFolder.calls]
                        ELSE With(filesList(d, parentFolder.id, splitPath(normalizedPath)[2],
                                            FALSE), found)
            IN  IF cacheHas(cache, normalizedPath)
                THEN [outcome |-> "ok", id |-> cacheGet(cache, normalizedPath),
                      cache |-> cache, calls |-> <<>>]
                ELSE With(getFolderIdByPath(d, cache, splitPath(normalizedPath)[1], FALSE),
                          inParent)
    IN  With(normalizePath(filePath, TRUE, FALSE), resolved)

gdDone(op, path, outcome, value, entries, calls) ==
    [op |-> op, path |-> path, outcome |-> outcome, value |-> value,
     entries |-> entries, calls |-> calls]

gdGetFileContent(path) ==
    \E file \in {getFileIdByPath(drive, idsCache, path)} :
        /\ idsCache' = file.cache
        /\ UNCHANGED <<gdRootDir, drive>>
        /\ IF file.outcome # "ok"
           THEN gdOp' = gdDone("getFileContent", path, file.outcome, Undefined, <<>>,
                               file.calls)
           ELSE \E response \in {filesGet(drive, file.id)} :
                    gdOp' = IF response.status = 200
                            THEN gdDone("getFileContent", path, "ok",
                                        [type |-> "Buffer", data |-> response.data.data],
                                        <<>>, Append(file.calls, gdCall("get", file.id, <<>>)))
                            ELSE gdDone("getFileContent", path, "FileManagerError",
                                        Undefined, <<>>,
                                        Append(file.calls, gdCall("get", file.id, <<>>)))

\* updateTextFile and updateBinaryFile differ in the type of the body only
gdUpdateFile(op, path, content) ==
    \E file \in {getFileIdByPath(drive, idsCache, path)} :
        /\ idsCache' = file.cache
        /\ UNCHANGED gdRootDir
        /\ IF file.outcome # "ok"
           THEN /\ gdOp' = gdDone(op, path, file.outcome, content, <<>>, file.calls)
                /\ UNCHANGED drive
           ELSE \E response \in {filesUpdate(drive, file.id, content)} :
                    /\ drive' = response.drive
                    /\ gdOp' = gdDone(op, path,
                                      IF response.status = 200 THEN "ok"
                                      ELSE "FileManagerError",
                                      content, <<>>,
                                      Append(file.calls, gdCall("update", file.id, <<>>)))

gdUpdateTextFile(path, content) == gdUpdateFile("updateTextFile", path, content)

gdUpdateBinaryFile(path, content) == gdUpdateFile("updateBinaryFile", path, content)

gdDeleteFile(path) ==
    \E file \in {getFileIdByPath(drive, idsCache, path)} :
        /\ idsCache' = file.cache
        /\ UNCHANGED gdRootDir
        /\ IF file.outcome # "ok"
           THEN /\ gdOp' = gdDone("deleteFile", path, file.outcome, Undefined, <<>>,
                                  file.calls)
                /\ UNCHANGED drive
           ELSE \E response \in {filesDelete(drive, file.id)} :
                    /\ drive' = response.drive
                    /\ gdOp' = gdDone("deleteFile", path,
                                      IF response.status = 204 THEN "ok"
                                      ELSE "FileManagerError",
                                      Undefined, <<>>,
                                      Append(file.calls, gdCall("delete", file.id, <<>>)))

\* the files of a folder as ResourceInfo, each made from the file's name alone
gdListed(d, folderId) ==
    LET names == {d[id].name : id \in childrenOf(d, folderId)}
        typeOf(name) ==
            IF (CHOOSE id \in childrenOf(d, folderId) : d[id].name = name) \in
                   {id \in NodeIds : d[id].folder}
            THEN "dir" ELSE "file"
        wrapped(ordered) ==
            [i \in 1..Len(ordered) |->
                construct(ordered[i], gdRootDir, typeOf(ordered[i]))]
    IN  With(sorted(names), wrapped)

\* the _recursive parameter is accepted and never read
gdListDirectoryContent(path, recursive) ==
    \E folder \in {getFolderIdByPath(drive, idsCache, path, FALSE)},
       op \in {IF recursive THEN "listDirectoryContentRecursive"
               ELSE "listDirectoryContent"} :
        /\ idsCache' = folder.cache
        /\ UNCHANGED <<gdRootDir, drive>>
        /\ gdOp' = IF folder.outcome # "ok"
                   THEN gdDone(op, path, folder.outcome, Undefined, <<>>, folder.calls)
                   ELSE gdDone(op, path, "ok", Undefined, gdListed(drive, folder.id),
                               Append(folder.calls, gdCall("list", folder.id, <<>>)))

gdCreateDirectory(path) ==
    \E folder \in {getFolderIdByPath(drive, idsCache, path, TRUE)} :
        /\ folder.outcome # "NoFreeId"
        /\ idsCache' = folder.cache
        /\ drive' = folder.drive
        /\ UNCHANGED gdRootDir
        /\ gdOp' = gdDone("createDirectory", path,
                          IF folder.outcome = "ok" THEN "ok" ELSE "FileManagerError",
                          Undefined, <<>>, folder.calls)

gdDeleteDirectory(path) ==
    \E folder \in {getFolderIdByPath(drive, idsCache, path, FALSE)} :
        /\ idsCache' = folder.cache
        /\ UNCHANGED gdRootDir
        /\ IF folder.outcome # "ok"
           THEN /\ gdOp' = gdDone("deleteDirectory", path, folder.outcome, Undefined,
                                  <<>>, folder.calls)
                /\ UNCHANGED drive
           ELSE \E response \in {filesDelete(drive, folder.id)} :
                    /\ drive' = response.drive
                    /\ gdOp' = gdDone("deleteDirectory", path,
                                      IF response.status = 204 THEN "ok"
                                      ELSE "FileManagerError",
                                      Undefined, <<>>,
                                      Append(folder.calls,
                                             gdCall("delete", folder.id, <<>>)))

\* raw paths the callers pass to the GoogleDrive adapter
GdFilePaths ==
    { <<"/", "a", ".", "b">>,                     \* /a.b
      <<"/", "d", "/", "a", ".", "b">>,           \* /d/a.b
      <<"/", "c", ".", "b">> }                    \* /c.b
GdDirPaths ==
    { <<"/">>,
      <<"/", "d", "/">>,                          \* /d/
      <<"/", "e", "/", "d", "/">> }               \* /e/d/
GdRootDirs ==
    { <<"/">>,
      <<"/", "d">> }                              \* /d

aFile(name, parentId, data) ==
    [state |-> "live", name |-> name, parent |-> parentId, folder |-> FALSE,
     content |-> [type |-> "string", data |-> data]]

aFolder(name, parentId) ==
    [state |-> "live", name |-> name, parent |-> parentId, folder |-> TRUE,
     content |-> Undefined]

EmptyDrive == [id \in NodeIds |-> FreeNode]

\* Drives the adapter may be given: an empty one, and one holding
\* /a.b, /d/ and /d/a.b
GdInitialDrives ==
    { EmptyDrive,
      [EmptyDrive EXCEPT !["id1"] = aFile(<<"a", ".", "b">>, RootId, "A"),
                         !["id2"] = aFolder(<<"d">>, RootId),
                         !["id3"] = aFile(<<"a", ".", "b">>, "id2", "") ] }

InitGD ==
    /\ gdRootDir \in GdRootDirs
    /\ drive \in GdInitialDrives
    /\ idsCache = {[path |-> <<"/">>, id |-> RootId]}
    /\ gdOp = NoGhOp
    /\ IdleRI
    /\ IdleMem
    /\ IdleGH

GdGetFileContent ==
    \E p \in GdFilePaths : gdGetFileContent(p) /\ UNCHANGED <<riVars, memVars, ghVars>>

GdUpdateTextFile ==
    \E p \in GdFilePaths, c \in TextContents :
        gdUpdateTextFile(p, c) /\ UNCHANGED <<riVars, memVars, ghVars>>

GdUpdateBinaryFile ==
    \E p \in GdFilePaths, c \in BinaryContents :
        gdUpdateBinaryFile(p, c) /\ UNCHANGED <<riVars, memVars, ghVars>>

GdDeleteFile ==
    \E p \in GdFilePaths : gdDeleteFile(p) /\ UNCHANGED <<riVars, memVars, ghVars>>

GdListDirectoryContent ==
    \E d \in GdDirPaths, recursive \in BOOLEAN :
        gdListDirectoryContent(d, recursive) /\ UNCHANGED <<riVars, memVars, ghVars>>

GdCreateDirectory ==
    \E d \in GdDirPaths : gdCreateDirectory(d) /\ UNCHANGED <<riVars, memVars, ghVars>>

GdDeleteDirectory ==
    \E d \in GdDirPaths : gdDeleteDirectory(d) /\ UNCHANGED <<riVars, memVars, ghVars>>

NextGD ==
    \/ GdGetFileContent
    \/ GdUpdateTextFile
    \/ GdUpdateBinaryFile
    \/ GdDeleteFile
    \/ GdListDirectoryContent
    \/ GdCreateDirectory
    \/ GdDeleteDirectory

SpecGD == InitGD /\ [][NextGD]_vars

----------------------------------------------------------------------------
(* Claims about the adapters *)

Updates == {"updateTextFile", "updateBinaryFile"}

\* the location in the repository the Github adapter's rootDir and a caller's
\* path name together
ghAddress(path) == denotes(ghGetPathFromRoot(path))

ghFileExists(files, path) ==
    ~ghAddress(path).outside /\ hasFileAt(files, ghAddress(path).segs)

\* C5: with a rootDir configured, every path the Github adapter sends to the
\* repository API in an operation denotes a location at or below the rootDir,
\* whatever path the caller gave (leading slashes or ".." segments included).
C5_RootDirConfinement ==
    ghRootDir # <<>> =>
        \A i \in 1..Len(ghOp.calls) :
            /\ ~denotes(ghOp.calls[i].path).outside
            /\ isPrefixSeq(Segments(ghRootDir), denotes(ghOp.calls[i].path).segs)

\* the folders of the Drive a sequence of folder names leads to from a folder
RECURSIVE gdFoldersAt(_, _, _)
gdFoldersAt(d, folderId, folderNames) ==
    IF folderNames = <<>> THEN {folderId}
    ELSE UNION {gdFoldersAt(d, id, Tail(folderNames)) :
                   id \in filesList(d, folderId, Head(folderNames), TRUE)}

\* the files of the Drive at the address the GoogleDrive adapter's rootDir and a
\* caller's path name together
gdFilesAt(d, path) ==
    LET parts == splitPath(normalizePath(path, TRUE, FALSE))
    IN  UNION {filesList(d, folderId, parts[2], FALSE) :
                  folderId \in gdFoldersAt(d, RootId, Segments(gdGetPathFromRoot(parts[1])))}

\* C6: on every adapter updateTextFile and updateBinaryFile succeed whether or
\* not a file exists at the path, and leave a file there holding the content
\* given.
C6_UpdateIsUpsert ==
    /\ memOp.op \in Updates =>
           /\ memOp.outcome = "ok"
           /\ mapGet(fileSystem, memOp.path) = memOp.value
    /\ ghOp.op \in Updates =>
           /\ ghOp.outcome = "ok"
           /\ ghFileExists(repo, ghOp.path)
           /\ fileAt(repo, ghAddress(ghOp.path).segs).content = toBase64(ghOp.value)
    /\ gdOp.op \in Updates =>
           /\ gdOp.outcome = "ok"
           /\ \E id \in gdFilesAt(drive, gdOp.path) : drive[id].content = gdOp.value

\* a getFileContent step on an address holding no file ends with
\* FileNotFoundError and leaves the store as it was
ReadOfAbsentFile ==
    /\ (memOp'.op = "getFileContent" /\ ~mapHas(fileSystem, memOp'.path)) =>
           memOp'.outcome = "FileNotFoundError" /\ fileSystem' = fileSystem
    /\ (ghOp'.op = "getFileContent" /\ ~ghFileExists(repo, ghOp'.path)) =>
           ghOp'.outcome = "FileNotFoundError" /\ repo' = repo
    /\ (gdOp'.op = "getFileContent" /\ gdFilesAt(drive, gdOp'.path) = {}) =>
           gdOp'.outcome = "FileNotFoundError" /\ drive' = drive

\* C9: on the InMemory, Github and GoogleDrive adapters getFileContent(p)
\* fails with FileNotFoundError, and with no other error, whenever no file
\* exists at the resolved address, and the failed read changes nothing stored.
C9_ReadOfAbsentFileFails == [][ReadOfAbsentFile]_vars

\* a deleteFile(p) step of the Github adapter on a stored file removes that file
\* and no other; on an absent path it ends without error, sends no mutating
\* request and leaves the repository as it was
GhDeleteSemantics ==
    ghOp'.op = "deleteFile" =>
        IF ghFileExists(repo, ghOp'.path)
        THEN /\ ghOp'.outcome = "ok"
             /\ repo' = repo \ {fileAt(repo, ghAddress(ghOp'.path).segs)}
        ELSE /\ ghOp'.outcome = "ok"
             /\ repo' = repo
             /\ \A i \in 1..Len(ghOp'.calls) : ghOp'.calls[i].api = "getContent"

\* C10: deleteFile(p) on an existing file, whatever its content, removes p from
\* the listing of its parent and changes no other stored resource; deleteFile(p)
\* on an absent path leaves the store unchanged and ends as a no-op (Github) or
\* with FileNotFoundError (InMemory), never with FileUpdateError.
C10_DeleteSemantics == [][MemDeleteSemantics /\ GhDeleteSemantics]_vars

\* the canonical path of a stored resource: its raw path as a ResourceInfo of
\* the kind it was stored as
canonical(rawPath, type) == construct(rawPath, <<>>, type).path

\* the kind of a key of the InMemory Map: createDirectory stores keys ending
\* with a slash, the updates store the file paths they are given
kindOfKey(key) == IF endsWith(key, <<"/">>) THEN "dir" ELSE "file"

\* the canonical paths of the resources stored directly in the directory d
memChildren(m, d) ==
    {canonical(m[i].key, kindOfKey(m[i].key)) :
        i \in {j \in 1..Len(m) :
                  /\ Len(Segments(m[j].key)) = Len(Segments(d)) + 1
                  /\ isPrefixSeq(Segments(d), Segments(m[j].key))}}

\* the canonical paths of the files and folders of the Drive directly in the
\* directory d
gdChildren(dr, d) ==
    {canonical(d \o <<"/">> \o dr[id].name, IF dr[id].folder THEN "dir" ELSE "file") :
        id \in UNION {childrenOf(dr, folderId) :
                         folderId \in gdFoldersAt(dr, RootId,
                                                  Segments(gdGetPathFromRoot(d)))}}

pathsOf(entries) == {entries[i].path : i \in 1..Len(entries)}

\* C11: a non-recursive listDirectoryContent(d) returns exactly one entry per
\* resource stored directly in d, whose path is d's canonical path followed by
\* one segment (and a slash for a directory); d itself and deeper resources do
\* not appear.
C11_ListsImmediateChildren ==
    /\ memOp.op = "listDirectoryContent" =>
           /\ pathsOf(memOp.entries) = memChildren(fileSystem, memOp.path)
           /\ Len(memOp.entries) = Cardinality(memChildren(fileSystem, memOp.path))
    /\ (gdOp.op = "listDirectoryContent" /\ gdOp.outcome = "ok") =>
           /\ pathsOf(gdOp.entries) = gdChildren(drive, gdOp.path)
           /\ Len(gdOp.entries) = Cardinality(gdChildren(drive, gdOp.path))

\* the canonical path of the directory with the segments given
dirPathOf(segs) ==
    IF segs = <<>> THEN <<"/">> ELSE <<"/">> \o join(segs) \o <<"/">>

\* the segment sequences that are proper prefixes of one of the sequences given
properPrefixes(locs) ==
    UNION {{SubSeq(loc, 1, n) : n \in 0..(Len(loc) - 1)} : loc \in locs}

\* A store as a tree: each directory's canonical path mapped to the canonical
\* paths of the resources directly in it, in the order the backend lists them.

\* the InMemory Map lists in insertion order
memTree(m) ==
    [d \in {dirPathOf(segs) :
               segs \in properPrefixes({Segments(m[i].key) : i \in 1..Len(m)})} |->
        LET inside(e) == /\ Len(Segments(e.key)) = Len(Segments(d)) + 1
                         /\ isPrefixSeq(Segments(d), Segments(e.key))
            kept == SelectSeq(m, inside)
        IN  [i \in 1..Len(kept) |-> canonical(kept[i].key, kindOfKey(kept[i].key))]]

\* the locations of the repository's files relative to the adapter's rootDir
ghRelative(files) ==
    {SubSeq(f.loc, Len(Segments(ghRootDir)) + 1, Len(f.loc)) :
        f \in {g \in files : isPrefixSeq(Segments(ghRootDir), g.loc)}}

\* GitHub lists a directory sorted by name; directories are those holding files
ghTree(files) ==
    [d \in {dirPathOf(segs) : segs \in properPrefixes(ghRelative(files))} |->
        LET ds == Segments(d)
            under == {loc \in ghRelative(files) : isPrefixSeq(ds, loc) /\ Len(loc) > Len(ds)}
            names == sorted({loc[Len(ds) + 1] : loc \in under})
        IN  [i \in 1..Len(names) |->
                IF Append(ds, names[i]) \in under
                THEN <<"/">> \o join(Append(ds, names[i]))
                ELSE dirPathOf(Append(ds, names[i]))]]

\* the names from the Drive's root down to a node
RECURSIVE gdLocOf(_, _)
gdLocOf(dr, id) ==
    IF id = RootId THEN <<>> ELSE Append(gdLocOf(dr, dr[id].parent), dr[id].name)

\* the locations of the Drive's live nodes relative to the adapter's rootDir
gdRelative(dr, ids) ==
    {SubSeq(gdLocOf(dr, id), Len(Segments(gdRootDir)) + 1, Len(gdLocOf(dr, id))) :
        id \in {n \in ids : /\ dr[n].state = "live"
                            /\ isPrefixSeq(Segments(gdRootDir), gdLocOf(dr, n))
                            /\ Len(gdLocOf(dr, n)) > Len(Segments(gdRootDir))}}

gdTree(dr) ==
    [d \in {dirPathOf(segs) : segs \in properPrefixes(gdRelative(dr, NodeIds))} |->
        LET ds == Segments(d)
            names == sorted({loc[Len(ds) + 1] :
                                loc \in {l \in gdRelative(dr, NodeIds) :
                                            isPrefixSeq(ds, l) /\ Len(l) = Len(ds) + 1}})
            folders == gdRelative(dr, {n \in NodeIds : dr[n].folder})
        IN  [i \in 1..Len(names) |->
                IF Append(ds, names[i]) \in folders
                THEN dirPathOf(Append(ds, names[i]))
                ELSE <<"/">> \o join(Append(ds, names[i]))]]

\* the subtree of the directory d: its entries, then the subtree of each of its
\* child directories in turn, depth-first
RECURSIVE subtree(_, _)
RECURSIVE subtreesFrom(_, _, _)
subtreesFrom(tree, children, i) ==
    IF i > Len(children) THEN <<>>
    ELSE (IF endsWith(children[i], <<"/">>) THEN subtree(tree, children[i]) ELSE <<>>)
         \o subtreesFrom(tree, children, i + 1)

subtree(tree, d) ==
    IF d \notin DOMAIN tree THEN <<>>
    ELSE tree[d] \o subtreesFrom(tree, tree[d], 1)

pathSeqOf(entries) == [i \in 1..Len(entries) |-> entries[i].path]

\* C12: on every adapter listDirectoryContent(d, recursive = true) returns the
\* whole subtree of d, each resource once: the entries of d first, then the
\* subtree of each child directory in turn, depth-first, in the backend's
\* listing order inside each directory.
C12_RecursiveListsSubtree ==
    /\ memOp.op = "listDirectoryContentRecursive" =>
           pathSeqOf(memOp.entries) =
               subtree(memTree(fileSystem), canonical(memOp.path, "dir"))
    /\ (/\ ghOp.op = "listDirectoryContentRecursive"
        /\ canonical(ghOp.path, "dir") \in DOMAIN ghTree(repo)) =>
           /\ ghOp.outcome = "ok"
           /\ pathSeqOf(ghOp.entries) = subtree(ghTree(repo), canonical(ghOp.path, "dir"))
    /\ (/\ gdOp.op = "listDirectoryContentRecursive"
        /\ canonical(gdOp.path, "dir") \in DOMAIN gdTree(drive)) =>
           /\ gdOp.outcome = "ok"
           /\ pathSeqOf(gdOp.entries) = subtree(gdTree(drive), canonical(gdOp.path, "dir"))

\* C13: after deleteDirectory(d) no stored resource has a canonical path that
\* starts with the canonical path of d, nested files and subdirectories
\* included.
C13_DeleteDirectoryCascades ==
    /\ memOp.op = "deleteDirectory" =>
           \A i \in 1..Len(fileSystem) :
               ~startsWith(canonical(fileSystem[i].key, kindOfKey(fileSystem[i].key)),
                           canonical(memOp.path, "dir"))
    /\ ghOp.op = "deleteDirectory" =>
           \A loc \in ghRelative(repo) : ~isPrefixSeq(Segments(ghOp.path), loc)

\* a createDirectory(d) step of the InMemory adapter: the directory of d and
\* each of its ancestors has an entry afterwards, the entries there before are
\* as they were, and no key is added but those of d and its ancestors; only the
\* segments of d count, so a trailing slash makes no difference
MemCreateDirectorySemantics ==
    memOp'.op = "createDirectory" =>
        LET segs == Segments(memOp'.path)
            wanted == {dirPathOf(SubSeq(segs, 1, n)) : n \in 1..Len(segs)}
        IN  /\ \A k \in wanted : mapHas(fileSystem', k)
            /\ Len(fileSystem') >= Len(fileSystem)
            /\ \A i \in 1..Len(fileSystem) : fileSystem'[i] = fileSystem[i]
            /\ {fileSystem'[i].key : i \in 1..Len(fileSystem')} =
                   {fileSystem[i].key : i \in 1..Len(fileSystem)} \cup wanted

\* C14: InMemory createDirectory(d) creates an explicit directory entry for d
\* and for every missing ancestor directory of d, leaves the directory entries
\* and files that already existed unchanged and adds no other key, whether or
\* not d ends with a slash.
C14_MemCreateDirectory == [][MemCreateDirectorySemantics]_vars

\* /a/b/ has been created on a store that held a file and no directory: the
\* entries of /a/ and /a/b/ are there after the file
C14_Witness ==
    /\ memOp.op = "createDirectory"
    /\ memOp.path = <<"/", "a", "/", "b", "/">>
    /\ Len(fileSystem) = 3
    /\ kindOfKey(fileSystem[1].key) = "file"
    /\ fileSystem[2].key = <<"/", "a", "/">>
    /\ fileSystem[3].key = <<"/", "a", "/", "b", "/">>

\* an update or deleteFile step of the Github adapter, by the answer the
\* repository gives to the metadata fetch: on a 404 an update sends a create
\* without sha and a delete ends without error and without a mutating request;
\* on a file, the mutating request carries the sha fetched
GhCreateOrUpdateSelection ==
    ghOp'.op \in Updates \cup {"deleteFile"} =>
        LET resp == getContent(repo, ghGetPathFromRoot(ghOp'.path))
            calls == ghOp'.calls
        IN  /\ calls[1].api = "getContent"
            /\ resp.status = 404 =>
                   IF ghOp'.op = "deleteFile"
                   THEN ghOp'.outcome = "ok" /\ Len(calls) = 1
                   ELSE /\ Len(calls) = 2
                        /\ calls[2].api = "createOrUpdateFileContents"
                        /\ calls[2].sha = Null
                        /\ ghOp'.outcome \in {"ok", "FileUpdateError"}
            /\ (resp.status = 200 /\ resp.type = "file") =>
                   /\ Len(calls) = 2
                   /\ calls[2].api = IF ghOp'.op = "deleteFile" THEN "deleteFile"
                                     ELSE "createOrUpdateFileContents"
                   /\ calls[2].sha = resp.sha
                   /\ calls[2].sha # Null

\* C15: updateTextFile, updateBinaryFile and deleteFile of the Github adapter
\* never surface the 404 of the metadata fetch; it yields a descriptor with a
\* null sha. The mutating call is a create without sha exactly when the fetched
\* sha is null and otherwise passes the fetched sha; a delete call always
\* passes the fetched sha.
C15_GhCreateOrUpdateSelection == [][GhCreateOrUpdateSelection]_vars

\* an update has found no file, sent a create without sha and succeeded
C15_Witness ==
    /\ ghOp.op = "updateTextFile"
    /\ ghOp.outcome = "ok"
    /\ Len(ghOp.calls) = 2
    /\ ghOp.calls[2].api = "createOrUpdateFileContents"
    /\ ghOp.calls[2].sha = Null

----------------------------------------------------------------------------
(* Concurrent callers of the Github adapter: each update or delete is two    *)
(* requests, the metadata fetch of getFileInfos and the mutating request,    *)
(* and the requests of other callers may come between the two.               *)

\* the path the concurrent callers work on
ConcurrentPath == <<"/", "a", ".", "b">>

InitGHC ==
    /\ ghRootDir \in {normalizePath(r, FALSE, FALSE) : r \in GhRootDirs}
    /\ repo \in SUBSET GhInitialFiles
    /\ ghOp = NoGhOp
    /\ ghProcs = [p \in Procs |-> IdleProc]
    /\ IdleRI
    /\ IdleMem
    /\ IdleGD

\* the await of getFileInfos at the start of updateTextFile, updateBinaryFile
\* and deleteFile
GhcFetch(p) ==
    /\ ghProcs[p].pc = "idle"
    /\ \E op \in Updates \cup {"deleteFile"},
          content \in TextContents \cup BinaryContents \cup {Undefined},
          infos \in {getFileInfos(repo, ConcurrentPath)} :
           /\ op = "updateTextFile" => content \in TextContents
           /\ op = "updateBinaryFile" => content \in BinaryContents
           /\ op = "deleteFile" => content = Undefined
           /\ ghProcs' = [ghProcs EXCEPT ![p] =
                             [pc |-> IF infos.outcome = "ok" THEN "fetched" ELSE "done",
                              op |-> op, content |-> content, infos |-> infos,
                              outcome |-> infos.outcome]]
    /\ UNCHANGED <<ghRootDir, repo, ghOp, riVars, memVars, gdVars>>

\* the rest of the operation: the mutating request with the sha fetched, and
\* the catch around it
GhcMutate(p) ==
    /\ ghProcs[p].pc = "fetched"
    /\ \E r \in {IF ghProcs[p].op = "deleteFile"
                 THEN deleteWith(repo, ghProcs[p].infos)
                 ELSE putWith(repo, ghProcs[p].infos, ghProcs[p].content)} :
           /\ repo' = r.files
           /\ ghProcs' = [ghProcs EXCEPT ![p].pc = "done", ![p].outcome = r.outcome]
    /\ UNCHANGED <<ghRootDir, ghOp, riVars, memVars, gdVars>>

\* the caller has its result and may start another operation
GhcReturn(p) ==
    /\ ghProcs[p].pc = "done"
    /\ ghProcs' = [ghProcs EXCEPT ![p] = IdleProc]
    /\ UNCHANGED <<ghRootDir, repo, ghOp, riVars, memVars, gdVars>>

NextGHC ==
    \/ \E p \in Procs : GhcFetch(p)
    \/ \E p \in Procs : GhcMutate(p)
    \/ \E p \in Procs : GhcReturn(p)

SpecGHC == InitGHC /\ [][NextGHC]_vars

\* the operation of p sends a mutating request: every update does, and a
\* delete does unless it fetched a null sha
mutates(proc) == ~(proc.op = "deleteFile" /\ proc.infos.sha = Null)

\* a step in which a caller's mutating request is made while the sha it fetched
\* (or the absence it fetched) is no longer that of the file: the operation
\* ends with FileUpdateError and the repository is as it was
NoStaleWrite ==
    \A p \in Procs :
        (/\ ghProcs[p].pc = "fetched"
         /\ ghProcs'[p].pc = "done"
         /\ mutates(ghProcs[p])
         /\ getFileInfos(repo, ConcurrentPath).sha # ghProcs[p].infos.sha) =>
            /\ ghProcs'[p].outcome = "FileUpdateError"
            /\ repo' = repo

\* C16: in every interleaving of two update or delete operations of the Github
\* adapter on the same path, an operation whose fetched sha, or fetched
\* absence, no longer matches the repository when its mutating request is made
\* is rejected and ends with FileUpdateError, and the file keeps what the other
\* operation wrote: no write based on a stale sha succeeds.
C16_GhNoStaleWrite == [][NoStaleWrite]_vars

\* both callers fetched the same state of the file, one has updated it and the
\* update of the other has been rejected
C16_Witness ==
    /\ ghProcs["p1"].pc = "done"
    /\ ghProcs["p1"].op = "updateTextFile"
    /\ ghProcs["p1"].outcome = "FileUpdateError"
    /\ ghProcs["p2"].pc = "done"
    /\ ghProcs["p2"].op \in Updates
    /\ ghProcs["p2"].outcome = "ok"
    /\ ghProcs["p1"].infos = ghProcs["p2"].infos

----------------------------------------------------------------------------
(* Claims about the errors *)

\* the error kinds of the contract
ContractErrors == {"PathError", "FileNotFoundError", "FileUpdateError"}

\* C17: every failure an operation of an adapter or the ResourceInfo
\* constructor surfaces is a PathError (EmptyPath), a FileNotFoundError or a
\* FileUpdateError: no raw backend error and no other kind reaches the caller.
C17_UniformErrors ==
    /\ memOp.outcome \in ContractErrors \cup {"ok"}
    /\ ghOp.outcome \in ContractErrors \cup {"ok"}
    /\ gdOp.outcome \in ContractErrors \cup {"ok"}
    /\ \A p \in Procs : ghProcs[p].outcome \in ContractErrors \cup {"ok"}
    /\ rsc.thrown => rsc.error \in ContractErrors

\* C18: constructing a ResourceInfo from an empty raw path fails with an
\* EmptyPathError, a PathError, and yields no ResourceInfo; every non-empty raw
\* path constructs.
C18_EmptyPathError ==
    riPc = "constructed" =>
        IF rscPath = <<>>
        THEN rsc.thrown /\ rsc.error = "PathError"
        ELSE ~rsc.thrown

\* s ends with a dot followed by one or more letters
endsWithDotLetters(s) ==
    /\ \E i \in 1..Len(s) : s[i] = "."
    /\ LET lastDot == CHOOSE i \in 1..Len(s) :
                          s[i] = "." /\ \A j \in (i + 1)..Len(s) : s[j] # "."
       IN  /\ lastDot < Len(s)
           /\ \A j \in (lastDot + 1)..Len(s) : s[j] \in Letters

\* C19: with no type declared (and no rootDir), a raw path ending in "/" is a
\* directory even when a segment looks like a file name with an extension;
\* otherwise a raw path ending in a dot and letters is a file; every other raw
\* path is a directory.
C19_KindInference ==
    (riPc = "constructed" /\ NoOptions /\ rscPath # <<>>) =>
        /\ ~rsc.thrown
        /\ IF endsWith(rscPath, <<"/">>) THEN isDirectory(rsc) /\ ~isFile(rsc)
           ELSE IF endsWithDotLetters(rscPath) THEN isFile(rsc) /\ ~isDirectory(rsc)
           ELSE isDirectory(rsc) /\ ~isFile(rsc)

\* a.a/ has been constructed with no options: its segment looks like a file
\* name and it ends with a slash
C19_Witness ==
    /\ riPc = "constructed"
    /\ NoOptions
    /\ rscPath = <<"a", ".", "a", "/">>
    /\ isDirectory(rsc)

\* the raw path is made of slashes only
slashesOnly(s) == s # <<>> /\ \A i \in 1..Len(s) : s[i] = "/"

\* C20: for the raw path "/" and every raw path made of slashes only, whatever
\* the options, the canonical path is exactly "/", it is a directory, its
\* parent is absent (null), and its fullname and name are both "<root>".
C20_RootIdentity ==
    (riPc = "constructed" /\ slashesOnly(rscPath)) =>
        /\ ~rsc.thrown
        /\ rsc.path = <<"/">>
        /\ isDirectory(rsc) /\ ~isFile(rsc)
        /\ parent(rsc) = NoResource
        /\ fullname(rsc) = RootName
        /\ nameOf(rsc) = RootName

\* a raw path of several slashes has been constructed with the type "dir"
C20_Witness ==
    /\ riPc = "constructed"
    /\ rscPath = <<"/", "/", "/">>
    /\ options.type = "dir"
    /\ rsc.path = <<"/">>

----------------------------------------------------------------------------
(* Claims about the getters of ResourceInfo *)

\* C21: for every resource r with at least one segment, r.parent is a
\* directory whose path is r.path without its last segment, so that r.path is
\* r.parent.path followed by r.fullname (and by "/" when r is a directory),
\* also when the name of the parent looks like a file name with an extension;
\* following parent repeatedly reaches the root "/" after exactly as many
\* steps as r.path has segments.
C21_ParentDerivation ==
    /\ \A i \in 1..(Len(lineage) - 1) :
           LET r == lineage[i]
               p == lineage[i + 1]
               segs == Segments(r.path)
           IN  /\ ~p.thrown
               /\ isDirectory(p)
               /\ Segments(p.path) = SubSeq(segs, 1, Len(segs) - 1)
               /\ r.path = p.path \o fullname(r)
                               \o (IF isDirectory(r) THEN <<"/">> ELSE <<>>)
               /\ (p.path = <<"/">>) = (i = Len(Segments(rsc.path)))
    /\ (riPc = "atRoot" /\ Len(Segments(rsc.path)) > 0) =>
           /\ Len(lineage) = Len(Segments(rsc.path)) + 1
           /\ lineage[Len(lineage)].path = <<"/">>

\* the parent chain of a resource below a directory named like a file with an
\* extension has been followed up to the root
C21_Witness ==
    /\ riPc = "atRoot"
    /\ Len(lineage) >= 3
    /\ matchesExtension(fullname(lineage[2]))
    /\ lineage[Len(lineage)].path = <<"/">>

\* s in lowercase is t
lowercased(s, t) ==
    /\ Len(t) = Len(s)
    /\ \A i \in 1..Len(s) : IF s[i] = "H" THEN t[i] = "h" ELSE t[i] = s[i]

\* C22: for every file, name is the part of fullname before its first dot and
\* ext is the part after its first dot in lowercase; ext is the empty string
\* for a file whose fullname has no dot and for every directory.
C22_ExtensionLaw ==
    getters.read =>
        LET fn == getters.fullname
            dots == {i \in 1..Len(fn) : fn[i] = "."}
        IN  /\ getters.isDirectory => getters.ext = <<>>
            /\ (getters.isFile /\ dots = {}) =>
                   (getters.name = fn /\ getters.ext = <<>>)
            /\ (getters.isFile /\ dots # {}) =>
                   \E k \in dots :
                       /\ \A j \in dots : k <= j
                       /\ getters.name = SubSeq(fn, 1, k - 1)
                       /\ lowercased(SubSeq(fn, k + 1, Len(fn)), getters.ext)

\* the getters of a file with two dots and an uppercase extension were read
C22_Witness ==
    /\ getters.read
    /\ getters.isFile
    /\ Cardinality({i \in 1..Len(getters.fullname) : getters.fullname[i] = "."}) = 2
    /\ getters.fullname[Len(getters.fullname)] = "H"
    /\ getters.ext = <<"c", ".", "h">>

\* the last dot-segment of an extension: what follows its last dot
lastDotSegment(e) == SubSeq(e, lastDotPos(e) + 1, Len(e))

\* C24: isText is true exactly when the resource is a file whose extension
\* (its last dot-segment, for a combined extension) is a member of the list
\* of text extensions; it is false for an extension outside the list, one
\* that merely ends with a listed extension included, and for a directory.
C24_IsTextExactlyListed ==
    getters.read =>
        (getters.isText <=>
            (getters.isFile /\ lastDotSegment(getters.ext) \in TextExtensions))

----------------------------------------------------------------------------
(* Claims about normalizePath *)

\* the positions where a maximal slash-free run of s starts
runStarts(s) == {i \in 1..Len(s) : s[i] # "/" /\ (i = 1 \/ s[i - 1] = "/")}

\* the maximal slash-free run of s that starts at position i
runFrom(s, i) ==
    LET last == CHOOSE j \in i..Len(s) :
                    /\ \A k \in i..j : s[k] # "/"
                    /\ (j = Len(s) \/ s[j + 1] = "/")
    IN  SubSeq(s, i, last)

\* the non-empty segments of s, in order
RECURSIVE runsAfter(_, _)
runsAfter(s, from) ==
    IF \A i \in runStarts(s) : i < from THEN <<>>
    ELSE LET i == CHOOSE i \in runStarts(s) :
                      i >= from /\ \A j \in runStarts(s) : j >= from => i <= j
         IN  <<runFrom(s, i)>> \o runsAfter(s, i + 1)

nonEmptySegments(s) == runsAfter(s, 1)

\* C23: normalizePath of the empty string is the empty string whatever the
\* flags; for any other input the result keeps exactly the non-empty segments
\* of the input in order, with no two consecutive slashes, and, when the input
\* has a non-empty segment, starts with "/" exactly when addLeadingSlash is
\* set and ends with "/" exactly when addTrailingSlash is set.
C23_NormalizePath ==
    npCall.called =>
        LET in == npCall.rscPath
            out == npCall.result
        IN  /\ in = <<>> => out = <<>>
            /\ in # <<>> =>
                   /\ nonEmptySegments(out) = nonEmptySegments(in)
                   /\ indexOf(out, <<"/", "/">>) = 0
                   /\ nonEmptySegments(in) # <<>> =>
                          /\ startsWith(out, <<"/">>) = npCall.opts.addLeadingSlash
                          /\ endsWith(out, <<"/">>) = npCall.opts.addTrailingSlash

\* a path of two segments with repeated slashes, without a leading slash and
\* with trailing ones, was normalized with the opposite flags
C23_Witness ==
    /\ npCall.called
    /\ npCall.rscPath = <<"a", "/", "/", "1", "/">>
    /\ npCall.opts = [addLeadingSlash |-> TRUE, addTrailingSlash |-> FALSE]
    /\ npCall.result = <<"/", "a", "/", "1">>

----------------------------------------------------------------------------
(* Claims about the address resolution of the GoogleDrive adapter *)

GdFileOps == {"getFileContent", "updateTextFile", "updateBinaryFile", "deleteFile"}

GdFolderOps == {"listDirectoryContent", "listDirectoryContentRecursive", "deleteDirectory"}

\* the folders of the Drive at the address the adapter's rootDir and a caller's
\* path name together
gdFoldersOf(d, path) == gdFoldersAt(d, RootId, Segments(gdGetPathFromRoot(path)))

\* no live node of the Drive is at the address of the operation
gdAbsent(d, op, path) ==
    IF op \in GdFileOps THEN gdFilesAt(d, path) = {} ELSE gdFoldersOf(d, path) = {}

gdLive(d) == {id \in NodeIds : d[id].state = "live"}

\* a step of an operation other than createDirectory issues no create call and
\* adds no node; on an address with an absent folder segment or an absent
\* leaf it ends with FileNotFoundError and leaves the Drive as it was
NoCreationUnlessRequested ==
    gdOp'.op \in GdFileOps \cup GdFolderOps =>
        /\ \A i \in 1..Len(gdOp'.calls) : gdOp'.calls[i].api # "create"
        /\ gdLive(drive') \subseteq gdLive(drive)
        /\ gdAbsent(drive, gdOp'.op, gdOp'.path) =>
               (gdOp'.outcome = "FileNotFoundError" /\ drive' = drive)

\* C25: the address resolution of the GoogleDrive adapter creates a node only
\* for createDirectory; getFileContent, updateTextFile, updateBinaryFile,
\* deleteFile, listDirectoryContent and deleteDirectory on a path with an
\* absent folder segment or an absent leaf end with FileNotFoundError, issue
\* no create call and leave the Drive unchanged.
C25_NoCreationUnlessRequested == [][NoCreationUnlessRequested]_vars

\* C26: after a successful resolution of a folder path with the segments
\* s1..sn the path -> ID cache of the GoogleDrive adapter holds an entry for
\* each prefix s1..sk (1 <= k <= n), so that a later resolution of the folder
\* or of one of its ancestors issues no backend query.
C26_EverySegmentMemoized ==
    (gdOp.op \in GdFolderOps \cup {"createDirectory"} /\ gdOp.outcome = "ok") =>
        LET segs == Segments(gdGetPathFromRoot(gdOp.path))
        IN  \A k \in 1..Len(segs) :
                \E e \in idsCache : Segments(e.path) = SubSeq(segs, 1, k)

\* the cache holds, for the path of a file operation, the ID of a node that is
\* no longer in the Drive
gdStale(d, cache, path) ==
    /\ cacheHas(cache, normalizePath(path, TRUE, FALSE))
    /\ ~live(d, cacheGet(cache, normalizePath(path, TRUE, FALSE)))

\* a getFileContent, update or deleteFile step on a path whose cache entry is
\* stale ends with FileNotFoundError
StaleEntryIsNotFound ==
    (gdOp'.op \in GdFileOps /\ gdStale(drive, idsCache, gdOp'.path)) =>
        gdOp'.outcome = "FileNotFoundError"

\* C27: when the path -> ID cache of the GoogleDrive adapter holds an ID for a
\* path whose node no longer exists (the adapter's own deleteFile and
\* deleteDirectory do not evict the entry), the next getFileContent, update
\* or delete on that path ends with FileNotFoundError, not with another kind
\* of error nor with a success.
C27_StaleEntryIsNotFound == [][StaleEntryIsNotFound]_vars

----------------------------------------------------------------------------
(* Claims about the rootDir of the Github adapter *)

\* C28: with a non-empty rootDir, every backend call of an operation of the
\* Github adapter on the caller's path p (metadata fetch, create, update,
\* delete, listing, sub-listing, marker file of createDirectory) targets
\* normalizePath(rootDir + "/" + p) or a path below it; so a file written by
\* an update of p is at the address a getFileContent(p) reads, and a directory
\* created holds a file below its address.
C28_RootDirJoinedOnce ==
    (ghRootDir # <<>> /\ ghOp.op # "none") =>
        /\ \A i \in 1..Len(ghOp.calls) :
               isPrefixSeq(Segments(ghGetPathFromRoot(ghOp.path)),
                           Segments(ghOp.calls[i].path))
        /\ (ghOp.op \in Updates /\ ghOp.outcome = "ok") =>
               /\ ghFileExists(repo, ghOp.path)
               /\ fileAt(repo, ghAddress(ghOp.path).segs).content = toBase64(ghOp.value)
        /\ (ghOp.op = "createDirectory" /\ ghOp.outcome = "ok") =>
               hasFilesUnder(repo, ghAddress(ghOp.path).segs)

----------------------------------------------------------------------------
(* Claims about the paths of the InMemory adapter *)

\* the resource stored under the key k is the directory d or is below it
memUnder(k, d) == isPrefixSeq(Segments(d), Segments(k))

\* a deleteDirectory(d) step keeps the entry and the content of every resource
\* that is not under d
DeleteDirectoryFrame ==
    memOp'.op = "deleteDirectory" =>
        \A i \in 1..Len(fileSystem) :
            ~memUnder(fileSystem[i].key, memOp'.path) =>
                /\ mapHas(fileSystem', fileSystem[i].key)
                /\ mapGet(fileSystem', fileSystem[i].key) = fileSystem[i].content

\* C29: deleteDirectory(d) on the InMemory adapter, with d given with or
\* without a trailing slash, leaves every resource outside d unchanged: a
\* sibling whose name merely begins with the name of d keeps its entry and
\* its content.
C29_DeleteDirectoryFrame == [][DeleteDirectoryFrame]_vars

\* the entries of the Map that hold a file content under a key with the same
\* canonical path as the raw path p
sameFile(m, p) ==
    {i \in 1..Len(m) : /\ ~falsy(m[i].content)
                        /\ canonical(m[i].key, "file") = canonical(p, "file")}

\* a step on a raw path acts on the resource stored under any raw path with the
\* same canonical path: a read returns its content, a delete removes it, and
\* a listing gives what the listing of another spelling of the directory gives
CanonicalAddressing ==
    /\ memOp'.op = "getFileContent" =>
           \A i \in sameFile(fileSystem, memOp'.path) :
               sameFile(fileSystem, memOp'.path) = {i} =>
                   (memOp'.outcome = "ok" /\ memOp'.value = fileSystem[i].content)
    /\ memOp'.op = "deleteFile" =>
           (sameFile(fileSystem, memOp'.path) # {} =>
               (memOp'.outcome = "ok" /\ sameFile(fileSystem', memOp'.path) = {}))
    /\ memOp'.op \in {"listDirectoryContent", "listDirectoryContentRecursive"} =>
           \A d \in MemDirPaths :
               canonical(d, "dir") = canonical(memOp'.path, "dir") =>
                   memOp'.entries =
                       listed(fileSystem, d, memOp'.op = "listDirectoryContentRecursive")

\* C30: on the InMemory adapter two raw paths with the same canonical path
\* (differing in leading, trailing or repeated slashes only) address the same
\* resource: after updateTextFile(p1, c), getFileContent(p2) returns c and
\* deleteFile(p2) removes the file, and listDirectoryContent gives the same
\* result for either spelling of a directory.
C30_CanonicalAddressing == [][CanonicalAddressing]_vars

====
